---- MODULE Spec2Model ----
(***************************************************************************)
(* A model of the game-rl bridge layer: the reader/demultiplexer task of   *)
(* the framed transports, the socket bridge client (HarmonyBridge) and its *)
(* start-up connect loop, the agent registry and the remote-console        *)
(* client.  Every component has its own specification over the one set of  *)
(* variables; the variables of the other components stay at their initial  *)
(* values.                                                                 *)
(***************************************************************************)
EXTENDS Integers, Sequences, FiniteSets, TLC

(***************************************************************************)
(* Bounds of the model.                                                    *)
(***************************************************************************)
MaxReq == 3
MaxWire == 2
MaxCapacity == 2
MaxSteps == 1
MaxFailures == 5
\* a retry ceiling a configuration could set (the code has none)
RetryCeiling == 3
\* top-level calls on the RCON client are made while next_id is at most this
MaxPacketId == 2
\* reply packets the RCON server may have in flight
MaxRconWire == 2
\* the longest packet body, in bytes
MaxBody == 2
\* observations read_current may parse in one behaviour
MaxReads == 5
\* observations parsed in one behaviour of the bridge's reset
MaxResetReads == 2

(***************************************************************************)
(* Program constants.                                                      *)
(***************************************************************************)
\* 64 * 1024 * 1024, the sanity check of read_message (tcp.rs, unix.rs)
MAX_MESSAGE_SIZE == 67108864
\* mpsc::channel(16): capacity of the request channel
REQUEST_CHANNEL_CAPACITY == 16
\* frames the bridge may have in flight to the peer before a write blocks
MaxOut == 2
\* frames the game writes on one connection under a stream of updates
MaxStream == 67
\* payloads written on one stream
MaxFrames == 3
\* execute calls the concurrent callers make between them
MaxCalls == 3
\* commands the file-poll bridge writes
MaxCmds == 3
\* response_timeout, in poll intervals
TimeoutPolls == 2
\* the poll intervals the model counts in one wait
MaxWait == 4
\* state updates the environment pushes
MaxNotes == 2
\* requests the client sends
MaxRpc == 2
\* the length of an ordinary small frame in this model
SmallLen == 8
\* the id every reply of the peer carries: no slot has this number
ReplyId == 7

VARIABLES
    transport,   \* which read_message the reader owns: "tcp", "unix", "harmony"
    wire,        \* frames the peer has written and the reader has not read
    sent,        \* number of frames the peer has written on this connection
    eof,         \* the peer has closed the stream (read_exact fails once drained)
    request_rx,  \* the request channel: reply slots sent and not yet received
    tx_alive,    \* a Sender of the request channel still exists
    pending,     \* the reader task's Vec of pending reply slots, oldest first
    reader,      \* "running", "reading_body" (inside read_exact), "exited"
    desync,      \* a read_message future was dropped after consuming bytes
    created,     \* number of reply slots created on this connection
    outcome,     \* per slot: what its oneshot receiver has been resolved with
    oversized    \* the reader has read a length prefix > MAX_MESSAGE_SIZE

    ,
    agents,      \* AgentRegistry.agents: HashMap<AgentId, AgentEntry>
    max_agents,  \* AgentRegistry.max_agents
    regLast,     \* the last registry call and what it returned
    mainPc,      \* main of harmony-bridge: where the bridge task stands
    delay,       \* main: the delay of the next sleep, in seconds
    failures,    \* main: failed connect attempts so far
    writer,      \* HarmonyBridge.writer: "None" or "Some"
    capabilities,\* HarmonyBridge.capabilities: "None" or "Some"
    connectResult, \* what the last connect() returned
    first,       \* the first frame the peer wrote on this connection
    waitSlot,    \* the reply slot the bridge task awaits
    callOp,      \* the bridge operation in progress: "request" or "send"
    callWrites,  \* times the operation in progress has called write_message
    callResult,  \* what the last request or send returned
    toPeer,      \* frames the bridge has written and the peer has not read
    stream,      \* RconClient.stream: "None" or "Some"
    authenticated, \* RconClient.authenticated
    next_id,     \* RconClient.next_id
    rPc,         \* where the caller of the RCON client stands
    rTop,        \* the public call in progress: "connect" or "execute"
    rAttempt,    \* execute: which execute_inner attempt is running
    rConn,       \* the server's end of the TCP connection
    rInbox,      \* packets the server has received and not answered
    rWire,       \* reply packets written by the server and not yet read
    rResult,     \* the last public call and what it returned
    rAuthReply,  \* ids of the replies to Auth packets read by this call
    rAuthSends,  \* Auth packets sent by this call
    rCmdSends,   \* command packets sent by this call
    rConnects,   \* TcpStream::connect calls made by this call
    rErr,        \* execute: the error e of the first execute_inner, if any
    pPkt,        \* an RconPacket: id, packet_type, body (bytes of the String)
    pBuf,        \* the Vec<u8> to_bytes returned for it
    pParsed,     \* what from_bytes returned for the bytes after the prefix
    pPhase,      \* "new", "encoded", "decoded"
    obsFile,     \* observation.json: "missing", "empty", "garbage",
                 \* "unreadable", or an "observation" with its tick
    last_tick,   \* ObservationReader.last_tick
    oSeen,       \* ticks of the observations read_current has parsed
    oEmitted,    \* ticks of the observations read_current has returned
    oLast,       \* the last read_current: content read, result, last_tick before
    rsPc,        \* FactorioBridge::reset: "idle", "rcon", "waiting", "done"
    rsFirst,     \* the first tick the game wrote while reset was under way
    rsWrites,    \* changes of the file since reset cleared it (2: two or more)
    rsStale,     \* wait_for_observation has polled the present content in vain
    rsResult,    \* what the last reset returned, and from which of its steps
    response,    \* the dispatch server's last Response, and what producing
                 \* it did
    gmMsg,       \* a GameMessage
    gmBytes,     \* what serialize returned for it
    gmDecoded,   \* what deserialize returned for those bytes
    gmPhase,     \* "new", "serialized", "deserialized"
    event_tx,    \* the broadcast channel: number of updates it has accepted
    event_rx,    \* its Receivers: per subscriber, the position it reads next
                 \* and what its last recv returned
    fTransport,  \* the wrappers on the two ends of a stream: "tcp" or "unix"
    fStream,     \* the bytes written to the stream and not yet read
    fWritten,    \* the payloads write_message has returned Ok for, in order
    fRead,       \* the payloads read_message has returned, in order
    fFailed      \* read_message has returned Err
    ,
    xPc,         \* per concurrent execute call: where it stands
    xId,         \* per call: the cmd_id it took from next_id
    xRet,        \* per call: what it returned, and for which cmd_id
    xLock        \* the holder of the stream Mutex of the RconClient, 0 if free
    ,
    status_file, \* gamerl_status.json: "missing", "created", "ready"
    command_file, \* gamerl_command.json: the command it holds, or empty
    response_file, \* gamerl_response.json: the message it holds, or empty
    connected,   \* ZomboidBridge.connected
    zPc,         \* where the caller of the bridge stands
    zCmd,        \* the number of the command request() wrote
    zWritten,    \* commands written to the command file so far
    zElapsed,    \* start.elapsed() of the wait under way, in poll intervals
    zGot,        \* wait_for_response_impl: content read and not yet cleared
    zRet,        \* the last bridge call and what it returned
    zInitWait,   \* start.elapsed() when the initial wait last ended
    zSeen,       \* numbers of the commands the game has picked up
    zTodo        \* commands the game has picked up and not yet answered
    ,
    outLock,     \* the Mutex around stdout: "none" or the task holding it
    outBytes,    \* everything the server has written to stdout, in order
    outBroken,   \* a write to stdout has failed: the pipe is gone
    fwdPc,       \* where the event forwarder task stands
    fwdN,        \* the number of the update the forwarder has received last
    evQueue,     \* updates in the forwarder's Receiver, not yet received
    reqPc,       \* where the request loop stands
    reqN,        \* the id of the request the loop has read last
    stdin,       \* request lines the client has written, not yet read
    cPc,         \* where the caller of GameRLClient stands
    request_id,  \* GameRLClient.request_id
    cRead,       \* how much of outBytes the client's readers have taken
    cRet         \* what the last send_request returned, and for which id

readerVars == <<transport, wire, sent, eof, request_rx, tx_alive, pending,
                reader, desync, created, outcome, oversized>>

registryVars == <<agents, max_agents, regLast>>

harmonyVars == <<mainPc, delay, failures, writer, capabilities, connectResult,
                 first, waitSlot, callOp, callWrites, callResult, toPeer>>

rconVars == <<stream, authenticated, next_id, rPc, rTop, rAttempt, rConn,
              rInbox, rWire, rResult, rAuthReply, rAuthSends, rCmdSends,
              rConnects, rErr>>

packetVars == <<pPkt, pBuf, pParsed, pPhase>>

observerVars == <<obsFile, last_tick, oSeen, oEmitted, oLast, rsPc, rsFirst,
                  rsWrites, rsStale, rsResult>>

toolVars == <<response>>

codecVars == <<gmMsg, gmBytes, gmDecoded, gmPhase>>

eventVars == <<event_tx, event_rx>>

framingVars == <<fTransport, fStream, fWritten, fRead, fFailed>>

pairVars == <<xPc, xId, xRet, xLock>>

zomboidVars == <<status_file, command_file, response_file, connected, zPc,
                 zCmd, zWritten, zElapsed, zGot, zRet, zInitWait, zSeen,
                 zTodo>>

stdioVars == <<outLock, outBytes, outBroken, fwdPc, fwdN, evQueue, reqPc, reqN,
               stdin, cPc, request_id, cRead, cRet>>

vars == <<readerVars, registryVars, harmonyVars, rconVars, packetVars,
          observerVars, toolVars, codecVars, eventVars, framingVars,
              pairVars,
              zomboidVars,
              stdioVars>>

\* what the actions of one component leave alone
notReader_rx == <<registryVars, harmonyVars, rconVars, packetVars,
                  observerVars, toolVars, codecVars, framingVars,
              pairVars,
              zomboidVars,
              stdioVars>>
notReader == <<notReader_rx, event_rx>>
notRegistry == <<readerVars, harmonyVars, rconVars, packetVars, observerVars,
              toolVars, codecVars, eventVars, framingVars,
              pairVars,
              zomboidVars,
              stdioVars>>
notHarmony == <<registryVars, rconVars, packetVars, observerVars,
              toolVars, codecVars, eventVars, framingVars,
              pairVars,
              zomboidVars,
              stdioVars>>
notRcon == <<readerVars, registryVars, harmonyVars, packetVars, observerVars,
              toolVars, codecVars, eventVars, framingVars,
              pairVars,
              zomboidVars,
              stdioVars>>
notPacket == <<readerVars, registryVars, harmonyVars, rconVars, observerVars,
              toolVars, codecVars, eventVars, framingVars,
              pairVars,
              zomboidVars,
              stdioVars>>
notObserver == <<readerVars, registryVars, harmonyVars, rconVars, packetVars,
                toolVars, codecVars, eventVars, framingVars,
              pairVars,
              zomboidVars,
              stdioVars>>
notTools == <<readerVars, harmonyVars, rconVars, packetVars, observerVars,
              codecVars, eventVars, framingVars,
              pairVars,
              zomboidVars,
              stdioVars>>
notCodec == <<readerVars, registryVars, harmonyVars, rconVars, packetVars,
              observerVars, toolVars, eventVars, framingVars,
              pairVars,
              zomboidVars,
              stdioVars>>

notFraming == <<readerVars, registryVars, harmonyVars, rconVars, packetVars,
                observerVars, toolVars, codecVars, eventVars,
              pairVars,
              zomboidVars,
              stdioVars>>

\* the concurrent execute calls work on the RconClient of rconVars
notPair == <<readerVars, registryVars, harmonyVars, packetVars, observerVars,
             toolVars, codecVars, eventVars, framingVars,
              zomboidVars,
              stdioVars>>

notZomboid == <<readerVars, registryVars, harmonyVars, rconVars, packetVars,
               observerVars, toolVars, codecVars, eventVars, framingVars,
               pairVars,
              stdioVars>>

notStdio == <<readerVars, registryVars, harmonyVars, rconVars, packetVars,
             observerVars, toolVars, codecVars, eventVars, framingVars,
             pairVars, zomboidVars>>

Transports == {"tcp", "unix", "harmony"}
Slots == 1..MaxReq

(***************************************************************************)
(* Frames: a 4-byte length prefix and a payload.  The payload is a Ready   *)
(* envelope, a StateUpdate envelope, any other envelope (a reply, carrying *)
(* an id of the peer's choosing) or bytes that are no envelope.  A frame   *)
(* with len > MAX_MESSAGE_SIZE is a length prefix whose payload has not    *)
(* arrived.  The largest frame a reader may accept is a StateUpdate of     *)
(* MAX_MESSAGE_SIZE bytes.                                                 *)
(***************************************************************************)
Frame(l, k, i) == [len |-> l, kind |-> k, id |-> i]

Frames ==
    {Frame(SmallLen, "Ready", 0),
     Frame(MAX_MESSAGE_SIZE, "StateUpdate", 0),
     Frame(SmallLen, "Reply", ReplyId),
     Frame(SmallLen, "Garbage", 0),
     Frame(MAX_MESSAGE_SIZE + 1, "Garbage", 0)}

(***************************************************************************)
(* read_message of the three framed readers, on the frame at the head of   *)
(* the stream: "Ok" (the payload is returned), "Err" (IpcError) or         *)
(* "Blocked" (read_exact waits for payload bytes that have not arrived).   *)
(***************************************************************************)
PayloadArrived(f) == f.len <= MAX_MESSAGE_SIZE

TcpReadMessage(f) ==
    IF f.len > MAX_MESSAGE_SIZE THEN "Err"
    ELSE IF PayloadArrived(f) THEN "Ok" ELSE "Blocked"

UnixReadMessage(f) ==
    IF f.len > MAX_MESSAGE_SIZE THEN "Err"
    ELSE IF PayloadArrived(f) THEN "Ok" ELSE "Blocked"

HarmonyReadMessage(f) ==
    IF PayloadArrived(f) THEN "Ok" ELSE "Blocked"

ReadMessage(t, f) ==
    CASE t = "tcp" -> TcpReadMessage(f)
      [] t = "unix" -> UnixReadMessage(f)
      [] t = "harmony" -> HarmonyReadMessage(f)

\* deserialize: bytes that are no envelope fail to decode
deserialize(f) == IF f.kind = "Garbage" THEN "Err" ELSE f.kind

(***************************************************************************)
(* Resolutions of a reply slot (the value its oneshot receiver yields).    *)
(***************************************************************************)
OkMsg(k, i, p) == [kind |-> "Ok", msg |-> k, id |-> i, pos |-> p]
ErrOut(e) == [kind |-> "Err", msg |-> e, id |-> 0, pos |-> 0]

\* pending.pop(): Vec::pop removes and returns the LAST element
PendingPopIndex(q) == Len(q)

PendingRest(q) ==
    LET i == PendingPopIndex(q)
    IN  SubSeq(q, 1, i - 1) \o SubSeq(q, i + 1, Len(q))

Resolve(out, s, v) == [out EXCEPT ![s] = Append(@, v)]

RECURSIVE ResolveAll(_, _, _)
ResolveAll(out, q, v) ==
    IF q = <<>> THEN out
    ELSE ResolveAll(Resolve(out, Head(q), v), Tail(q), v)

(***************************************************************************)
(* The reader task leaves its loop: its locals are dropped.  Dropping the  *)
(* Vec drops the oneshot senders still in it, and dropping the Receiver    *)
(* closes the request channel and drops the pairs still queued in it; a    *)
(* receiver whose sender is dropped yields RecvError.                      *)
(***************************************************************************)
ReaderDrop(out, pend, queued) ==
    ResolveAll(ResolveAll(out, pend, ErrOut("RecvError")), queued,
               ErrOut("RecvError"))

(***************************************************************************)
(* AgentRegistry (game-rl-server/src/registry.rs).                         *)
(***************************************************************************)
AgentIds == {"a", "b", "c"}
\* two of the AgentType variants
AgentTypes == {"Player", "GameMaster"}
AgentStatuses == {"Registered", "Active", "Terminal", "Disconnected"}
\* the reward a step reports
Rewards == {2}

Len_agents(ag) == Cardinality(DOMAIN ag)

NewEntry(ty) ==
    [agent_type |-> ty, status |-> "Registered", last_step |-> 0,
     total_reward |-> 0]

Insert(ag, id, e) ==
    [k \in DOMAIN ag \cup {id} |-> IF k = id THEN e ELSE ag[k]]

Remove(ag, id) == [k \in DOMAIN ag \ {id} |-> ag[k]]

\* a register whose capacity check lets one entry too many in
RegistryRegisterOffByOne(ag, max, id, ty) ==
    IF Len_agents(ag) > max
    THEN [res |-> "CapacityExceeded", agents |-> ag]
    ELSE IF id \in DOMAIN ag
    THEN [res |-> "Ok", agents |-> ag]
    ELSE [res |-> "Ok", agents |-> Insert(ag, id, NewEntry(ty))]

\* AgentRegistry::register: the capacity check comes first
RegistryRegister(ag, max, id, ty) ==
    IF Len_agents(ag) >= max
    THEN [res |-> "CapacityExceeded", agents |-> ag]
    ELSE IF id \in DOMAIN ag
    THEN [res |-> "Ok", agents |-> ag]
    ELSE [res |-> "Ok", agents |-> Insert(ag, id, NewEntry(ty))]

\* AgentRegistry::deregister
RegistryDeregister(ag, id) ==
    IF id \in DOMAIN ag
    THEN [res |-> "Ok", agents |-> Remove(ag, id)]
    ELSE [res |-> "NotFound", agents |-> ag]

\* AgentRegistry::set_status
RegistrySetStatus(ag, id, st) ==
    IF id \in DOMAIN ag THEN [ag EXCEPT ![id].status = st] ELSE ag

\* a record_step that makes an entry for an id it does not find
RegistryRecordStepInserts(ag, id, reward) ==
    IF id \in DOMAIN ag
    THEN [ag EXCEPT ![id].last_step = @ + 1, ![id].total_reward = @ + reward]
    ELSE Insert(ag, id, [NewEntry("Player") EXCEPT !.last_step = 1,
                                                   !.total_reward = reward])

\* AgentRegistry::record_step
RegistryRecordStep(ag, id, reward) ==
    IF id \in DOMAIN ag
    THEN [ag EXCEPT ![id].last_step = @ + 1, ![id].total_reward = @ + reward]
    ELSE ag

\* AgentRegistry::available_slots (usize subtraction)
available_slots == max_agents - Len_agents(agents)

Call(op, id, res) == [op |-> op, id |-> id, res |-> res]

\* AgentRegistry::new(max_agents)
RegistryInit ==
    /\ agents = <<>>
    /\ max_agents \in 0..MaxCapacity
    /\ regLast = Call("new", "", "Ok")

Register ==
    \E id \in AgentIds, ty \in AgentTypes :
        LET r == RegistryRegister(agents, max_agents, id, ty)
        IN  /\ agents' = r.agents
            /\ regLast' = Call("register", id, r.res)
            /\ UNCHANGED <<max_agents, notRegistry>>

Deregister ==
    \E id \in AgentIds :
        LET r == RegistryDeregister(agents, id)
        IN  /\ agents' = r.agents
            /\ regLast' = Call("deregister", id, r.res)
            /\ UNCHANGED <<max_agents, notRegistry>>

SetStatus ==
    \E id \in AgentIds, st \in AgentStatuses :
        /\ agents' = RegistrySetStatus(agents, id, st)
        /\ regLast' = Call("set_status", id, "Ok")
        /\ UNCHANGED <<max_agents, notRegistry>>

RecordStep ==
    \E id \in AgentIds, reward \in Rewards :
        /\ id \in DOMAIN agents => agents[id].last_step < MaxSteps
        /\ agents' = RegistryRecordStep(agents, id, reward)
        /\ regLast' = Call("record_step", id, "Ok")
        /\ UNCHANGED <<max_agents, notRegistry>>

RegistryNext ==
    \/ Register
    \/ Deregister
    \/ SetStatus
    \/ RecordStep

ReaderInit ==
    /\ transport \in Transports
    /\ wire = <<>>
    /\ sent = 0
    /\ eof = FALSE
    /\ request_rx = <<>>
    /\ tx_alive = TRUE
    /\ pending = <<>>
    /\ reader = "running"
    /\ desync = FALSE
    /\ created = 0
    /\ outcome = [s \in Slots |-> <<>>]
    /\ oversized = FALSE

(***************************************************************************)
(* The peer.                                                               *)
(***************************************************************************)
PeerSend ==
    /\ UNCHANGED <<notReader, event_tx>>
    /\ ~eof
    /\ sent < MaxWire
    /\ \E f \in Frames : wire' = Append(wire, f)
    /\ sent' = sent + 1
    /\ UNCHANGED <<transport, eof, request_rx, tx_alive, pending, reader,
                   desync, created, outcome, oversized>>

PeerClose ==
    /\ UNCHANGED <<notReader, event_tx>>
    /\ ~eof
    /\ eof' = TRUE
    /\ UNCHANGED <<transport, wire, sent, request_rx, tx_alive, pending,
                   reader, desync, created, outcome, oversized>>

(***************************************************************************)
(* A client of the reader task: a fresh oneshot pair, its sender sent on   *)
(* the request channel.  The send fails when the Receiver is gone.         *)
(***************************************************************************)
Submit ==
    /\ UNCHANGED <<notReader, event_tx>>
    /\ tx_alive
    /\ created < MaxReq
    /\ Len(request_rx) < REQUEST_CHANNEL_CAPACITY
    /\ created' = created + 1
    /\ IF reader = "exited"
       THEN /\ outcome' = Resolve(outcome, created + 1, ErrOut("SendError"))
            /\ UNCHANGED request_rx
       ELSE /\ request_rx' = Append(request_rx, created + 1)
            /\ UNCHANGED outcome
    /\ UNCHANGED <<transport, wire, sent, eof, tx_alive, pending, reader,
                   desync, oversized>>

\* the last Sender of the request channel is dropped
CloseChannel ==
    /\ UNCHANGED <<notReader, event_tx>>
    /\ tx_alive
    /\ tx_alive' = FALSE
    /\ UNCHANGED <<transport, wire, sent, eof, request_rx, pending, reader,
                   desync, created, outcome, oversized>>

(***************************************************************************)
(* reader_task: one iteration of its select! loop.                         *)
(***************************************************************************)
\* req = request_rx.recv() => Some((_msg, response_tx)): pending.push.
\* The read_message future of this iteration is dropped: bytes it had
\* consumed inside read_exact are lost and the stream is out of step.
ReaderRecvRequest ==
    /\ UNCHANGED <<notReader, event_tx>>
    /\ reader \in {"running", "reading_body"}
    /\ request_rx /= <<>>
    /\ pending' = Append(pending, Head(request_rx))
    /\ request_rx' = Tail(request_rx)
    /\ reader' = "running"
    /\ desync' = (desync \/ reader = "reading_body")
    /\ UNCHANGED <<transport, wire, sent, eof, tx_alive, created, outcome, oversized>>

\* req = request_rx.recv() => None: break
ReaderChannelClosed ==
    /\ UNCHANGED <<notReader, event_tx>>
    /\ reader \in {"running", "reading_body"}
    /\ request_rx = <<>>
    /\ ~tx_alive
    /\ reader' = "exited"
    /\ outcome' = ReaderDrop(outcome, pending, <<>>)
    /\ pending' = <<>>
    /\ UNCHANGED <<transport, wire, sent, eof, request_rx, tx_alive, desync,
                   created, oversized>>

\* a reader that only logs the read error and goes on with its loop
ReaderFailKeepsLooping ==
    /\ UNCHANGED <<reader, outcome, pending, request_rx, event_tx>>

\* a reader that tells only the slot pending.pop() yields of the failure
ReaderFailNotifiesOne ==
    /\ reader' = "exited"
    /\ outcome' = ReaderDrop(
                      IF pending = <<>> THEN outcome
                      ELSE Resolve(outcome, pending[PendingPopIndex(pending)],
                                   ErrOut("Connection lost")),
                      PendingRest(pending), request_rx)
    /\ pending' = <<>>
    /\ request_rx' = <<>>
    /\ UNCHANGED event_tx

\* Err(e): notify all pending requests of failure, break
ReaderFail ==
    /\ reader' = "exited"
    /\ outcome' = ReaderDrop(ResolveAll(outcome, pending,
                                        ErrOut("Connection lost")),
                             <<>>, request_rx)
    /\ pending' = <<>>
    /\ request_rx' = <<>>
    /\ UNCHANGED event_tx

(***************************************************************************)
(* The broadcast channel of StateUpdates (tokio::sync::broadcast).  The    *)
(* channel keeps the last BROADCAST_CAPACITY values.  send never waits: it *)
(* fails, storing nothing, when no Receiver exists, and otherwise stores   *)
(* the value at the tail, overwriting the oldest.  A Receiver created by   *)
(* subscribe starts at the tail.  recv waits while the Receiver has seen   *)
(* everything; it returns Lagged(n) and moves to the oldest value kept     *)
(* when that value is past its position, and the next value otherwise.     *)
(***************************************************************************)
\* broadcast::channel(64)
BROADCAST_CAPACITY == 64

Subscribers == {1, 2}

Receiver(n, l, m) == [next |-> n, last |-> l, missed |-> m]

\* event_tx.send(update)
BroadcastSend(tx, rx) == IF DOMAIN rx = {} THEN tx ELSE tx + 1

\* rx.recv() of a Receiver that has something to return
BroadcastRecv(tx, r) ==
    IF tx - r.next > BROADCAST_CAPACITY
    THEN Receiver(tx - BROADCAST_CAPACITY, "Lagged",
                  r.missed + (tx - BROADCAST_CAPACITY - r.next))
    ELSE Receiver(r.next + 1, "Ok", r.missed)

\* a reader whose channel of updates is bounded like the request channel:
\* send waits while a Receiver has BROADCAST_CAPACITY updates unread
ReaderBroadcastBlocking ==
    /\ \A r \in DOMAIN event_rx : event_tx - event_rx[r].next < BROADCAST_CAPACITY
    /\ event_tx' = BroadcastSend(event_tx, event_rx)
    /\ UNCHANGED <<request_rx, pending, reader, outcome>>

\* a reader that also hands the update to a pending slot
ReaderBroadcastCompletes ==
    /\ event_tx' = BroadcastSend(event_tx, event_rx)
    /\ IF pending /= <<>>
       THEN /\ outcome' = Resolve(outcome, pending[PendingPopIndex(pending)],
                                  OkMsg("StateUpdate", 0, PendingPopIndex(pending)))
            /\ pending' = PendingRest(pending)
       ELSE UNCHANGED <<outcome, pending>>
    /\ UNCHANGED <<request_rx, reader>>

\* Ok(msg), GameMessage::StateUpdate: event_tx.send, errors ignored
ReaderBroadcast ==
    /\ event_tx' = BroadcastSend(event_tx, event_rx)
    /\ UNCHANGED <<request_rx, pending, reader, outcome>>

\* Ok(msg), any other variant: pending.pop() and send, or warn
ReaderDeliver(f) ==
    /\ IF pending /= <<>>
       THEN /\ outcome' = Resolve(outcome, pending[PendingPopIndex(pending)],
                                  OkMsg(f.kind, f.id, PendingPopIndex(pending)))
            /\ pending' = PendingRest(pending)
       ELSE UNCHANGED <<outcome, pending>>
    /\ UNCHANGED <<request_rx, reader, event_tx>>

\* deserialize failed: the error goes to pending.pop(), if any
ReaderDecodeError ==
    /\ IF pending /= <<>>
       THEN /\ outcome' = Resolve(outcome, pending[PendingPopIndex(pending)],
                                  ErrOut("SerializationError"))
            /\ pending' = PendingRest(pending)
       ELSE UNCHANGED <<outcome, pending>>
    /\ UNCHANGED <<request_rx, reader, event_tx>>

\* what the reader finds at the head of the stream: the frame the peer
\* wrote, or, once the stream is out of step, arbitrary bytes
SeenFrames(f) ==
    IF desync
    THEN {Frame(SmallLen, "Garbage", 0), Frame(MAX_MESSAGE_SIZE + 1, "Garbage", 0)}
    ELSE {f}

\* msg_result = reader.read_message() => ...
ReaderReadMessage ==
    /\ UNCHANGED notReader
    /\ reader = "running"
    /\ wire /= <<>>
    /\ wire' = Tail(wire)
    /\ \E f \in SeenFrames(Head(wire)) :
         LET r == ReadMessage(transport, f)
         IN  /\ oversized' = (oversized \/ f.len > MAX_MESSAGE_SIZE)
             /\ CASE r = "Err" ->
                       ReaderFail
                  [] r = "Blocked" ->
                       /\ reader' = "reading_body"
                       /\ UNCHANGED <<request_rx, pending, outcome, event_tx>>
                  [] r = "Ok" ->
                       CASE deserialize(f) = "Err" -> ReaderDecodeError
                         [] deserialize(f) = "StateUpdate" -> ReaderBroadcast
                         [] OTHER -> ReaderDeliver(f)
    /\ UNCHANGED <<transport, sent, eof, tx_alive, desync, created>>

\* inside read_exact for a payload: the bytes that follow are taken as payload
ReaderReadBody ==
    /\ UNCHANGED <<notReader, event_tx>>
    /\ reader = "reading_body"
    /\ wire /= <<>>
    /\ wire' = Tail(wire)
    /\ UNCHANGED <<transport, sent, eof, request_rx, tx_alive, pending, reader,
                   desync, created, outcome, oversized>>

\* read_exact fails: the stream is closed and nothing is left to read
ReaderReadEof ==
    /\ UNCHANGED notReader
    /\ reader \in {"running", "reading_body"}
    /\ wire = <<>>
    /\ eof
    /\ ReaderFail
    /\ UNCHANGED <<transport, wire, sent, eof, tx_alive, desync, created, oversized>>

ReaderStep ==
    \/ ReaderRecvRequest
    \/ ReaderChannelClosed
    \/ ReaderReadMessage
    \/ ReaderReadBody
    \/ ReaderReadEof

ReaderNext ==
    \/ PeerSend
    \/ PeerClose
    \/ Submit
    \/ CloseChannel
    \/ ReaderRecvRequest
    \/ ReaderChannelClosed
    \/ ReaderReadMessage
    \/ ReaderReadBody
    \/ ReaderReadEof

(***************************************************************************)
(* The subscribers of the StateUpdate channel: subscribe_events hands out  *)
(* a Receiver, the event forwarder of the dispatch server loops on recv.   *)
(***************************************************************************)
\* subscribe_events: event_tx.subscribe()
Subscribe ==
    /\ \E r \in Subscribers \ DOMAIN event_rx :
         event_rx' = [k \in DOMAIN event_rx \cup {r} |->
                         IF k = r THEN Receiver(event_tx, "none", 0)
                         ELSE event_rx[k]]
    /\ UNCHANGED <<readerVars, event_tx, notReader_rx>>

\* the Receiver is dropped (the forwarder task ended)
Unsubscribe ==
    /\ \E r \in DOMAIN event_rx :
         event_rx' = [k \in DOMAIN event_rx \ {r} |-> event_rx[k]]
    /\ UNCHANGED <<readerVars, event_tx, notReader_rx>>

\* the event forwarder, rx.recv().await: Ok(update) or Lagged(n); both
\* keep the loop going
SubscriberRecv ==
    /\ \E r \in DOMAIN event_rx :
         /\ event_rx[r].next < event_tx
         /\ event_rx' = [event_rx EXCEPT ![r] = BroadcastRecv(event_tx, @)]
    /\ UNCHANGED <<readerVars, event_tx, notReader_rx>>

RoutingNext ==
    \/ PeerSend
    \/ PeerClose
    \/ Submit
    \/ ReaderRecvRequest
    \/ ReaderReadMessage
    \/ ReaderReadBody
    \/ ReaderReadEof
    \/ Subscribe
    \/ Unsubscribe
    \/ SubscriberRecv

(***************************************************************************)
(* harmony-bridge: main's connect loop (main.rs) and HarmonyBridge         *)
(* (ipc.rs).  The bridge is used through &mut self, so connect, request    *)
(* and send never overlap: mainPc is the position of the one bridge task.  *)
(* Before the first connect there is no socket and the Receiver made by    *)
(* HarmonyBridge::new is already dropped.  A connect that gets a socket    *)
(* replaces writer and request_tx and spawns a new reader task; the reader *)
(* of an earlier attempt holds no reply slot any more and is left out.     *)
(***************************************************************************)
\* Duration::from_secs(1), Duration::from_secs(10)
initial_delay == 1
max_delay == 10

Min(a, b) == IF a < b THEN a ELSE b

\* a backoff that doubles without the ceiling
BackoffUncapped(d) == d * 2

\* delay = std::cmp::min(delay * 2, max_delay)
Backoff(d) == Min(d * 2, max_delay)

NoResult == [kind |-> "None", msg |-> "", id |-> 0, pos |-> 0]
OkUnit == [kind |-> "Ok", msg |-> "()", id |-> 0, pos |-> 0]

HarmonyInit ==
    /\ mainPc = "connect"
    /\ delay = initial_delay
    /\ failures = 0
    /\ writer = "None"
    /\ capabilities = "None"
    /\ connectResult = "none"
    /\ first = "none"
    /\ waitSlot = 0
    /\ callOp = "none"
    /\ callWrites = 0
    /\ callResult = NoResult
    /\ toPeer = <<>>

\* the reader side of a bridge that has not connected yet
NoConnection ==
    /\ transport = "harmony"
    /\ wire = <<>>
    /\ sent = 0
    /\ eof = TRUE
    /\ request_rx = <<>>
    /\ tx_alive = TRUE
    /\ pending = <<>>
    /\ reader = "exited"
    /\ desync = FALSE
    /\ created = 0
    /\ outcome = [s \in Slots |-> <<>>]
    /\ oversized = FALSE

\* connect, lines 76-100: UnixStream::connect, store the writer, a new
\* request channel, spawn reader_task
ConnectOpen ==
    /\ mainPc = "connect"
    /\ \E ok \in BOOLEAN :
         IF ok
         THEN /\ writer' = "Some"
              /\ wire' = <<>>
              /\ sent' = 0
              /\ eof' = FALSE
              /\ request_rx' = <<>>
              /\ pending' = <<>>
              /\ reader' = "running"
              /\ desync' = FALSE
              /\ created' = 0
              /\ outcome' = [s \in Slots |-> <<>>]
              /\ oversized' = FALSE
              /\ mainPc' = "handshake"
              /\ UNCHANGED connectResult
         ELSE /\ connectResult' = "IpcError"
              /\ mainPc' = "sleep"
              /\ UNCHANGED <<writer, wire, sent, eof, request_rx, pending,
                             reader, desync, created, outcome, oversized>>
    /\ first' = "none"
    /\ waitSlot' = 0
    /\ toPeer' = IF mainPc' = "handshake" THEN <<>> ELSE toPeer
    /\ UNCHANGED <<transport, tx_alive, delay, failures, capabilities,
                   callOp, callWrites, callResult, notHarmony>>

\* connect, lines 112-117: the dummy request that is to receive Ready
ConnectSendDummy ==
    /\ mainPc = "handshake"
    /\ created' = created + 1
    /\ IF reader = "exited"
       THEN /\ outcome' = Resolve(outcome, created + 1, ErrOut("SendError"))
            /\ connectResult' = "IpcError"
            /\ mainPc' = "sleep"
            /\ UNCHANGED <<request_rx, waitSlot>>
       ELSE /\ request_rx' = Append(request_rx, created + 1)
            /\ waitSlot' = created + 1
            /\ mainPc' = "await_ready"
            /\ UNCHANGED <<outcome, connectResult>>
    /\ UNCHANGED <<transport, wire, sent, eof, tx_alive, pending, reader,
                   desync, oversized, delay, failures, writer, capabilities,
                   first, callOp, callWrites, callResult, toPeer, notHarmony>>

\* the error kind connect returns for a resolution that is no message
ConnectError(o) ==
    IF o.msg = "SerializationError" THEN "SerializationError" ELSE "IpcError"

\* connect, lines 120-140: await the slot, match on the message
ConnectAwait ==
    /\ mainPc = "await_ready"
    /\ outcome[waitSlot] /= <<>>
    /\ LET o == outcome[waitSlot][1]
       IN  IF o.kind = "Ok" /\ o.msg = "Ready"
           THEN /\ capabilities' = "Some"
                /\ connectResult' = "Ok"
                /\ mainPc' = "serving"
           ELSE /\ connectResult' =
                      IF o.kind = "Ok" THEN "ProtocolError" ELSE ConnectError(o)
                /\ mainPc' = "sleep"
                /\ UNCHANGED capabilities
    /\ UNCHANGED <<readerVars, delay, failures, writer, first, waitSlot,
                   callOp, callWrites, callResult, toPeer, notHarmony>>

\* main, lines 41-45: sleep(delay), then the next delay
MainSleep ==
    /\ mainPc = "sleep"
    /\ failures < MaxFailures
    /\ failures' = failures + 1
    /\ delay' = Backoff(delay)
    /\ mainPc' = "connect"
    /\ UNCHANGED <<readerVars, writer, capabilities, connectResult, first,
                   waitSlot, callOp, callWrites, callResult, toPeer, notHarmony>>

\* the peer writes a frame on this connection
HarmonyPeerSend ==
    /\ ~eof
    /\ sent < MaxWire
    /\ \E f \in Frames :
         /\ wire' = Append(wire, f)
         /\ first' = IF sent = 0 THEN f.kind ELSE first
    /\ sent' = sent + 1
    /\ UNCHANGED <<transport, eof, request_rx, tx_alive, pending, reader,
                   desync, created, outcome, oversized>>
    /\ UNCHANGED <<mainPc, delay, failures, writer, capabilities,
                   connectResult, waitSlot, callOp, callWrites, callResult,
                   toPeer, notHarmony>>

\* what write_message leaves in the socket for the peer: nothing when it
\* failed or the peer is gone
Written(ok, m) == IF ok /\ ~eof THEN Append(toPeer, m) ELSE toPeer

\* a send that, like request, goes on to create a reply slot and await it
CallWriteSendAwaits ==
    /\ mainPc = "serving"
    /\ Len(toPeer) < MaxOut
    /\ \E op \in {"request", "send"}, ok \in BOOLEAN :
         /\ created < MaxReq
         /\ ~ok => eof
         /\ callOp' = op
         /\ IF writer = "None"
            THEN /\ callResult' = ErrOut("Not connected")
                 /\ callWrites' = 0
                 /\ UNCHANGED <<mainPc, toPeer>>
            ELSE /\ callWrites' = 1
                 /\ toPeer' = Written(ok, [op |-> op, n |-> created + 1])
                 /\ IF ~ok
                    THEN callResult' = ErrOut("Write failed") /\ UNCHANGED mainPc
                    ELSE callResult' = NoResult /\ mainPc' = "submit"
    /\ UNCHANGED <<readerVars, delay, failures, writer, capabilities,
                   connectResult, first, waitSlot, notHarmony>>

\* request, lines 145-158, and send, lines 174-183: take the writer and
\* write the frame; a write to a stream the peer has closed may fail
CallWrite ==
    /\ mainPc = "serving"
    /\ Len(toPeer) < MaxOut
    /\ \E op \in {"request", "send"}, ok \in BOOLEAN :
         /\ op = "request" => created < MaxReq
         /\ ~ok => eof
         /\ callOp' = op
         /\ IF writer = "None"
            THEN /\ callResult' = ErrOut("Not connected")
                 /\ callWrites' = 0
                 /\ UNCHANGED <<mainPc, toPeer>>
            ELSE /\ callWrites' = 1
                 /\ toPeer' = Written(ok, [op |-> op, n |-> created + 1])
                 /\ IF ~ok
                    THEN callResult' = ErrOut("Write failed") /\ UNCHANGED mainPc
                    ELSE IF op = "send"
                    THEN callResult' = OkUnit /\ UNCHANGED mainPc
                    ELSE callResult' = NoResult /\ mainPc' = "submit"
    /\ UNCHANGED <<readerVars, delay, failures, writer, capabilities,
                   connectResult, first, waitSlot, notHarmony>>

\* request, lines 161-165: the reply slot goes to the reader task
CallSubmit ==
    /\ mainPc = "submit"
    /\ created' = created + 1
    /\ IF reader = "exited"
       THEN /\ outcome' = Resolve(outcome, created + 1, ErrOut("SendError"))
            /\ callResult' = ErrOut("Reader task not running")
            /\ mainPc' = "serving"
            /\ UNCHANGED <<request_rx, waitSlot>>
       ELSE /\ request_rx' = Append(request_rx, created + 1)
            /\ waitSlot' = created + 1
            /\ mainPc' = "await_reply"
            /\ UNCHANGED <<outcome, callResult>>
    /\ UNCHANGED <<transport, wire, sent, eof, tx_alive, pending, reader,
                   desync, oversized, delay, failures, writer, capabilities,
                   connectResult, first, callOp, callWrites, toPeer, notHarmony>>

\* a request that returns to its caller without awaiting response_rx
CallAwaitReturnsEarly ==
    /\ mainPc = "await_reply"
    /\ callResult' = IF outcome[waitSlot] /= <<>> THEN outcome[waitSlot][1]
                     ELSE OkUnit
    /\ mainPc' = "serving"
    /\ UNCHANGED <<readerVars, delay, failures, writer, capabilities,
                   connectResult, first, waitSlot, callOp, callWrites,
                   toPeer, notHarmony>>

\* request, lines 167-169: await the slot
CallAwait ==
    /\ mainPc = "await_reply"
    /\ outcome[waitSlot] /= <<>>
    /\ LET o == outcome[waitSlot][1]
       IN  callResult' =
               IF o.kind = "Err" /\ o.msg = "RecvError"
               THEN ErrOut("Reader task died waiting for response")
               ELSE o
    /\ mainPc' = "serving"
    /\ UNCHANGED <<readerVars, delay, failures, writer, capabilities,
                   connectResult, first, waitSlot, callOp, callWrites,
                   toPeer, notHarmony>>

\* shutdown, lines 370-375: send(Shutdown) with `?`, and only when the send
\* returned Ok is the writer taken out of the bridge
CallShutdown ==
    /\ mainPc = "serving"
    /\ Len(toPeer) < MaxOut
    /\ \E ok \in BOOLEAN :
         /\ ~ok => eof
         /\ callOp' = "shutdown"
         /\ IF writer = "None"
            THEN /\ callResult' = ErrOut("Not connected")
                 /\ callWrites' = 0
                 /\ UNCHANGED <<writer, toPeer>>
            ELSE /\ callWrites' = 1
                 /\ toPeer' = Written(ok, [op |-> "shutdown", n |-> created + 1])
                 /\ IF ~ok
                    THEN callResult' = ErrOut("Write failed") /\ UNCHANGED writer
                    ELSE callResult' = OkUnit /\ writer' = "None"
    /\ UNCHANGED <<readerVars, mainPc, delay, failures, capabilities,
                   connectResult, first, waitSlot, notHarmony>>

\* the peer reads the frame at the head of its socket; it answers a request
\* with one reply frame, which carries the number of the request it answers,
\* and answers nothing to a notification
PeerReply ==
    /\ ~eof
    /\ toPeer /= <<>>
    /\ toPeer' = Tail(toPeer)
    /\ IF Head(toPeer).op = "request"
       THEN /\ wire' = Append(wire, Frame(SmallLen, "Reply", Head(toPeer).n))
            /\ sent' = sent + 1
            /\ first' = IF sent = 0 THEN "Reply" ELSE first
       ELSE UNCHANGED <<wire, sent, first>>
    /\ UNCHANGED <<transport, eof, request_rx, tx_alive, pending, reader,
                   desync, created, outcome, oversized>>
    /\ UNCHANGED <<mainPc, delay, failures, writer, capabilities,
                   connectResult, waitSlot, callOp, callWrites, callResult,
                   notHarmony>>

HarmonyNext ==
    \/ ConnectOpen
    \/ ConnectSendDummy
    \/ ConnectAwait
    \/ MainSleep
    \/ CallWrite
    \/ CallSubmit
    \/ CallAwait
    \/ CallShutdown
    \/ HarmonyPeerSend
    \/ PeerReply
    \/ PeerClose
    \/ ReaderRecvRequest
    \/ ReaderReadMessage
    \/ ReaderReadBody
    \/ ReaderReadEof

(***************************************************************************)
(* A connected HarmonyBridge under a long stream of StateUpdates: the game *)
(* pushes updates while the bridge makes requests, and the subscriber is   *)
(* slow: it calls recv only once the channel has overwritten an update it  *)
(* had not read.                                                           *)
(***************************************************************************)
\* connect returned Ok: the handshake slot got Ready, the reader task runs
ConnectedBridge ==
    /\ transport = "harmony"
    /\ wire = <<>>
    /\ sent = 1
    /\ eof = FALSE
    /\ request_rx = <<>>
    /\ tx_alive = TRUE
    /\ pending = <<>>
    /\ reader = "running"
    /\ desync = FALSE
    /\ created = 1
    /\ outcome = [s \in Slots |-> IF s = 1 THEN <<OkMsg("Ready", 0, 1)>> ELSE <<>>]
    /\ oversized = FALSE
    /\ mainPc = "serving"
    /\ delay = initial_delay
    /\ failures = 0
    /\ writer = "Some"
    /\ capabilities = "Some"
    /\ connectResult = "Ok"
    /\ first = "Ready"
    /\ waitSlot = 1
    /\ callOp = "none"
    /\ callWrites = 0
    /\ callResult = NoResult
    /\ toPeer = <<>>

\* the game pushes a StateUpdate
PeerSendUpdate ==
    /\ ~eof
    /\ sent < MaxStream
    /\ Len(wire) < MaxWire
    /\ wire' = Append(wire, Frame(SmallLen, "StateUpdate", 0))
    /\ sent' = sent + 1
    /\ UNCHANGED <<transport, eof, request_rx, tx_alive, pending, reader,
                   desync, created, outcome, oversized>>
    /\ UNCHANGED <<harmonyVars, notHarmony>>

SlowSubscriberRecv ==
    /\ \E r \in DOMAIN event_rx :
         \/ event_rx[r].last /= "none"
         \/ event_tx - event_rx[r].next > BROADCAST_CAPACITY
    /\ SubscriberRecv

EventsNext ==
    \/ CallWrite
    \/ CallSubmit
    \/ CallAwait
    \/ PeerReply
    \/ PeerSendUpdate
    \/ ReaderRecvRequest
    \/ ReaderReadMessage
    \/ SlowSubscriberRecv

\* the components a specification does not exercise, at rest
(***************************************************************************)
(* factorio-bridge: RconClient (rcon.rs) and the RCON server it talks to.  *)
(***************************************************************************)
\* recv_packet rejects a size prefix above this
MAX_PACKET_SIZE == 4096
\* from_bytes rejects a packet shorter than this
MIN_PACKET_SIZE == 10
\* the id of the reply with which the server rejects the password
AUTH_REJECTED == -1
\* error_codes (game-rl-core/src/error.rs) and the JSON-RPC codes the server
\* writes as literals
AGENT_NOT_REGISTERED == -32000
INVALID_ACTION == -32001
EPISODE_TERMINATED == -32002
SYNC_TIMEOUT == -32003
RESOURCE_EXHAUSTED == -32004
INTERNAL_ERROR == -32603
METHOD_NOT_FOUND == -32601
INVALID_PARAMS == -32602
\* an id no packet of the client carries
OtherId == 0

RconSizes == {MIN_PACKET_SIZE - 1, MIN_PACKET_SIZE, MAX_PACKET_SIZE,
              MAX_PACKET_SIZE + 1}

\* the variants of GameRLError
ErrorKinds == {"AgentNotRegistered", "InvalidAction", "ActionSpaceViolation",
               "EpisodeTerminated", "SyncTimeout", "ResourceExhausted",
               "StreamError", "IpcError", "SerializationError", "GameError",
               "ProtocolError"}

RErr(k, m) == [kind |-> k, msg |-> m, body |-> 0]
ROk(b) == [kind |-> "Ok", msg |-> "", body |-> b]
NoPkt == [id |-> 0, size |-> 0, re |-> 0]

\* the texts of the errors of the client, as Display prints them
NotAuthenticatedMsg == "IPC error: RCON not authenticated"
NotConnectedMsg == "IPC error: RCON not connected"
AuthFailedMsg == "IPC error: RCON authentication failed"
ConnectFailedMsg == "IPC error: RCON connect failed: Connection refused"
SendFailedMsgs == {"IPC error: RCON send failed: Broken pipe",
                   "IPC error: RCON send failed: Connection reset by peer"}
RecvFailedMsgs == {"IPC error: RCON recv size failed: early eof",
                   "IPC error: RCON recv size failed: Connection reset by peer"}
TooLargeMsg == "Protocol error: RCON packet too large"
TooShortMsg == "Protocol error: RCON packet too short"

\* execute: err_str contains "Broken pipe", "eof", "not connected" or
\* "not authenticated"
ConnectionRelated(m) ==
    m \in {"IPC error: RCON send failed: Broken pipe",
           "IPC error: RCON recv size failed: early eof",
           NotConnectedMsg, NotAuthenticatedMsg}

\* send_packet: the results write_all can have, with the server's inbox
SendPacket(pkt) ==
    IF stream = "None"
    THEN {[res |-> RErr("IpcError", NotConnectedMsg), inbox |-> rInbox]}
    ELSE IF rConn = "open"
    THEN {[res |-> ROk(0), inbox |-> Append(rInbox, pkt)]}
    ELSE {[res |-> RErr("IpcError", m), inbox |-> rInbox] : m \in SendFailedMsgs}
         \cup {[res |-> ROk(0), inbox |-> rInbox]}

\* what the bytes after the size prefix of an oversize packet are read as
Leftover(p) ==
    {[id |-> i, size |-> z, re |-> p.re] :
        i \in {AUTH_REJECTED, OtherId}, z \in RconSizes}

\* recv_packet: the results it can have, with what is left on the wire;
\* no result while the connection is open and nothing has arrived
RecvPacket ==
    IF stream = "None"
    THEN {[res |-> RErr("IpcError", NotConnectedMsg), wire |-> rWire,
           pkt |-> NoPkt]}
    ELSE IF rWire /= <<>>
    THEN LET p == Head(rWire)
         IN  IF p.size > MAX_PACKET_SIZE
             THEN {[res |-> RErr("ProtocolError", TooLargeMsg),
                    wire |-> <<g>> \o Tail(rWire), pkt |-> NoPkt] :
                       g \in Leftover(p)}
             ELSE IF p.size < MIN_PACKET_SIZE
             THEN {[res |-> RErr("ProtocolError", TooShortMsg),
                    wire |-> Tail(rWire), pkt |-> NoPkt]}
             ELSE {[res |-> ROk(p.re), wire |-> Tail(rWire), pkt |-> p]}
    ELSE IF rConn = "closed"
    THEN {[res |-> RErr("IpcError", m), wire |-> rWire, pkt |-> NoPkt] :
             m \in RecvFailedMsgs}
    ELSE {}

RconInit ==
    /\ stream = "None"
    /\ authenticated = FALSE
    /\ next_id = 1
    /\ rPc = "idle"
    /\ rTop = "none"
    /\ rAttempt = 0
    /\ rConn = "none"
    /\ rInbox = <<>>
    /\ rWire = <<>>
    /\ rResult = [op |-> "none", res |-> ROk(0)]
    /\ rAuthReply = <<>>
    /\ rAuthSends = 0
    /\ rCmdSends = 0
    /\ rConnects = 0
    /\ rErr = <<>>

\* the public call in progress returns r
Return(r) ==
    /\ rPc' = "idle"
    /\ rResult' = [op |-> rTop, res |-> r]

\* execute reconnecting after any error of the first execute_inner
ExecuteFailedRetryAny(e) ==
    /\ rErr' = IF rAttempt = 1 THEN <<e>> ELSE rErr
    /\ IF rAttempt = 1
       THEN /\ authenticated' = FALSE
            /\ rPc' = "connect"
            /\ UNCHANGED rResult
       ELSE /\ Return(e)
            /\ UNCHANGED authenticated

\* execute: the Err arm of the match on the first execute_inner
ExecuteFailed(e) ==
    /\ rErr' = IF rAttempt = 1 THEN <<e>> ELSE rErr
    /\ IF rAttempt = 1 /\ ConnectionRelated(e.msg)
       THEN /\ authenticated' = FALSE
            /\ rPc' = "connect"
            /\ UNCHANGED rResult
       ELSE /\ Return(e)
            /\ UNCHANGED authenticated

\* a caller calls connect
RconConnect ==
    /\ UNCHANGED notRcon
    /\ rPc = "idle"
    /\ next_id <= MaxPacketId
    /\ rTop' = "connect"
    /\ rAttempt' = 0
    /\ rPc' = "connect"
    /\ rAuthReply' = <<>>
    /\ rAuthSends' = 0
    /\ rCmdSends' = 0
    /\ rConnects' = 0
    /\ rErr' = <<>>
    /\ UNCHANGED <<stream, authenticated, next_id, rConn, rInbox, rWire,
                   rResult>>

\* connect: TcpStream::connect and the store of the stream
RconTcpConnect ==
    /\ UNCHANGED notRcon
    /\ rPc = "connect"
    /\ \E ok \in BOOLEAN :
         IF ok
         THEN /\ stream' = "Some"
              /\ rConn' = "open"
              /\ rInbox' = <<>>
              /\ rWire' = <<>>
              /\ rPc' = "auth_send"
              /\ UNCHANGED rResult
         ELSE /\ Return(RErr("IpcError", ConnectFailedMsg))
              /\ UNCHANGED <<stream, rConn, rInbox, rWire>>
    /\ rConnects' = rConnects + 1
    /\ UNCHANGED <<authenticated, next_id, rTop, rAttempt, rAuthReply,
                   rAuthSends, rCmdSends, rErr>>

\* connect: take auth_id and send the Auth packet
RconAuthSend ==
    /\ UNCHANGED notRcon
    /\ rPc = "auth_send"
    /\ next_id' = next_id + 1
    /\ rAuthSends' = rAuthSends + 1
    /\ \E o \in SendPacket([type |-> "Auth", id |-> next_id]) :
         /\ rInbox' = o.inbox
         /\ IF o.res.kind = "Ok"
            THEN rPc' = "auth_recv" /\ UNCHANGED rResult
            ELSE Return(o.res)
    /\ UNCHANGED <<stream, authenticated, rTop, rAttempt, rConn, rWire,
                   rAuthReply, rCmdSends, rConnects, rErr>>

\* connect: read the reply to the Auth packet and judge it; inside execute
\* a successful connect is followed by the second execute_inner
RconAuthRecv ==
    /\ UNCHANGED notRcon
    /\ rPc = "auth_recv"
    /\ \E o \in RecvPacket :
         /\ rWire' = o.wire
         /\ IF o.res.kind /= "Ok"
            THEN /\ Return(o.res)
                 /\ UNCHANGED <<authenticated, rAttempt, rAuthReply>>
            ELSE /\ rAuthReply' = Append(rAuthReply, o.pkt.id)
                 /\ IF o.pkt.id = AUTH_REJECTED
                    THEN /\ authenticated' = FALSE
                         /\ Return(RErr("IpcError", AuthFailedMsg))
                         /\ UNCHANGED rAttempt
                    ELSE /\ authenticated' = TRUE
                         /\ IF rTop = "connect"
                            THEN Return(ROk(0)) /\ UNCHANGED rAttempt
                            ELSE /\ rPc' = "exec_inner"
                                 /\ rAttempt' = 2
                                 /\ UNCHANGED rResult
    /\ UNCHANGED <<stream, next_id, rTop, rConn, rInbox, rAuthSends,
                   rCmdSends, rConnects, rErr>>

\* a caller calls execute
RconExecute ==
    /\ UNCHANGED notRcon
    /\ rPc = "idle"
    /\ next_id <= MaxPacketId
    /\ rTop' = "execute"
    /\ rAttempt' = 1
    /\ rPc' = "exec_inner"
    /\ rAuthReply' = <<>>
    /\ rAuthSends' = 0
    /\ rCmdSends' = 0
    /\ rConnects' = 0
    /\ rErr' = <<>>
    /\ UNCHANGED <<stream, authenticated, next_id, rConn, rInbox, rWire,
                   rResult>>

\* execute_inner up to the send of the command packet
RconExecuteInner ==
    /\ UNCHANGED notRcon
    /\ rPc = "exec_inner"
    /\ IF ~authenticated
       THEN /\ ExecuteFailed(RErr("IpcError", NotAuthenticatedMsg))
            /\ UNCHANGED <<next_id, rInbox, rCmdSends>>
       ELSE /\ next_id' = next_id + 1
            /\ rCmdSends' = rCmdSends + 1
            /\ \E o \in SendPacket([type |-> "ExecCommand", id |-> next_id]) :
                 /\ rInbox' = o.inbox
                 /\ IF o.res.kind = "Ok"
                    THEN /\ rPc' = "exec_recv"
                         /\ UNCHANGED <<rResult, authenticated, rErr>>
                    ELSE ExecuteFailed(o.res)
    /\ UNCHANGED <<stream, rTop, rAttempt, rConn, rWire, rAuthReply,
                   rAuthSends, rConnects>>

\* execute_inner: read the single response packet and return its body
RconExecuteRecv ==
    /\ UNCHANGED notRcon
    /\ rPc = "exec_recv"
    /\ \E o \in RecvPacket :
         /\ rWire' = o.wire
         /\ IF o.res.kind = "Ok"
            THEN Return(o.res) /\ UNCHANGED <<authenticated, rErr>>
            ELSE ExecuteFailed(o.res)
    /\ UNCHANGED <<stream, next_id, rTop, rAttempt, rConn, rInbox,
                   rAuthReply, rAuthSends, rCmdSends, rConnects>>

\* disconnect: take and shut down the stream
RconDisconnect ==
    /\ UNCHANGED notRcon
    /\ rPc = "idle"
    /\ stream = "Some" \/ authenticated
    /\ stream' = "None"
    /\ authenticated' = FALSE
    /\ rConn' = IF stream = "Some" /\ rConn = "open" THEN "closed" ELSE rConn
    /\ UNCHANGED <<next_id, rPc, rTop, rAttempt, rInbox, rWire, rResult,
                   rAuthReply, rAuthSends, rCmdSends, rConnects, rErr>>

\* the server answers the oldest packet it has received
RconServerReply ==
    /\ UNCHANGED notRcon
    /\ rConn = "open"
    /\ rInbox /= <<>>
    /\ Len(rWire) < MaxRconWire
    /\ \E i \in {Head(rInbox).id, AUTH_REJECTED, OtherId}, z \in RconSizes :
         rWire' = Append(rWire, [id |-> i, size |-> z, re |-> Head(rInbox).id])
    /\ rInbox' = Tail(rInbox)
    /\ UNCHANGED <<stream, authenticated, next_id, rPc, rTop, rAttempt, rConn,
                   rResult, rAuthReply, rAuthSends, rCmdSends, rConnects,
                   rErr>>

\* the server closes the connection
RconServerClose ==
    /\ UNCHANGED notRcon
    /\ rConn = "open"
    /\ rConn' = "closed"
    /\ UNCHANGED <<stream, authenticated, next_id, rPc, rTop, rAttempt,
                   rInbox, rWire, rResult, rAuthReply, rAuthSends, rCmdSends,
                   rConnects, rErr>>

RconNext ==
    \/ RconConnect
    \/ RconTcpConnect
    \/ RconAuthSend
    \/ RconAuthRecv
    \/ RconExecute
    \/ RconExecuteInner
    \/ RconExecuteRecv
    \/ RconDisconnect
    \/ RconServerReply
    \/ RconServerClose

(***************************************************************************)
(* factorio-bridge: two execute calls running concurrently on one          *)
(* RconClient (execute takes &self).  The client is connected and          *)
(* authenticated and the server keeps the connection open, so that         *)
(* execute_inner never fails with a connection error and execute returns   *)
(* what its first execute_inner returns.  send_packet and recv_packet each *)
(* take the stream Mutex on their own; recv_packet keeps it while it waits *)
(* for the bytes of a packet.                                              *)
(***************************************************************************)
Callers == {1, 2}

NoRet == [kind |-> "none", msg |-> "", body |-> 0, sent |-> 0, id |-> 0]

PairInit ==
    /\ xPc = [c \in Callers |-> "idle"]
    /\ xId = [c \in Callers |-> 0]
    /\ xRet = [c \in Callers |-> NoRet]
    /\ xLock = 0

\* an RconClient after connect() returned Ok: the Auth packet took id 1
PairConnected ==
    /\ stream = "Some"
    /\ authenticated = TRUE
    /\ next_id = 2
    /\ rPc = "idle"
    /\ rTop = "none"
    /\ rAttempt = 0
    /\ rConn = "open"
    /\ rInbox = <<>>
    /\ rWire = <<>>
    /\ rResult = [op |-> "none", res |-> ROk(0)]
    /\ rAuthReply = <<>>
    /\ rAuthSends = 0
    /\ rCmdSends = 0
    /\ rConnects = 0
    /\ rErr = <<>>

PairRest == <<stream, authenticated, rPc, rTop, rAttempt, rConn, rResult,
              rAuthReply, rAuthSends, rCmdSends, rConnects, rErr>>

\* what execute returns to caller c
PairReturn(c, r, p) ==
    /\ xRet' = [xRet EXCEPT ![c] = [kind |-> r.kind, msg |-> r.msg,
                                    body |-> r.body, sent |-> xId[c],
                                    id |-> p.id]]
    /\ xPc' = [xPc EXCEPT ![c] = "idle"]

\* execute_inner: the authenticated check and next_id.fetch_add(1)
PairTakeId(c) ==
    /\ UNCHANGED notPair
    /\ xPc[c] = "idle"
    /\ next_id < 2 + MaxCalls
    /\ IF ~authenticated
       THEN /\ xId' = [xId EXCEPT ![c] = 0]
            /\ PairReturn(c, RErr("IpcError", NotAuthenticatedMsg), NoPkt)
            /\ UNCHANGED next_id
       ELSE /\ xId' = [xId EXCEPT ![c] = next_id]
            /\ next_id' = next_id + 1
            /\ xPc' = [xPc EXCEPT ![c] = "send"]
            /\ UNCHANGED xRet
    /\ UNCHANGED <<xLock, rInbox, rWire, PairRest>>

\* send_packet: lock the stream, write the packet, release the lock
PairSendPacket(c) ==
    /\ UNCHANGED notPair
    /\ xPc[c] = "send"
    /\ xLock = 0
    /\ \E o \in SendPacket([type |-> "ExecCommand", id |-> xId[c]]) :
         /\ rInbox' = o.inbox
         /\ IF o.res.kind = "Ok"
            THEN xPc' = [xPc EXCEPT ![c] = "recv"] /\ UNCHANGED xRet
            ELSE PairReturn(c, o.res, NoPkt)
    /\ UNCHANGED <<xId, xLock, next_id, rWire, PairRest>>

\* recv_packet: self.stream.lock().await
PairRecvLock(c) ==
    /\ UNCHANGED notPair
    /\ xPc[c] = "recv"
    /\ xLock = 0
    /\ xLock' = c
    /\ xPc' = [xPc EXCEPT ![c] = "reading"]
    /\ UNCHANGED <<xId, xRet, next_id, rInbox, rWire, PairRest>>

\* recv_packet under the lock, and the rest of execute_inner: a response
\* whose id is not cmd_id is logged and its body returned all the same
PairRecvPacket(c) ==
    /\ UNCHANGED notPair
    /\ xPc[c] = "reading"
    /\ xLock = c
    /\ \E o \in RecvPacket :
         /\ rWire' = o.wire
         /\ PairReturn(c, o.res, o.pkt)
    /\ xLock' = 0
    /\ UNCHANGED <<xId, next_id, rInbox, PairRest>>

\* the server answers the oldest command with a packet that carries its id
PairServerReply ==
    /\ UNCHANGED notPair
    /\ rConn = "open"
    /\ rInbox /= <<>>
    /\ Len(rWire) < MaxRconWire
    /\ \E z \in {MIN_PACKET_SIZE, MAX_PACKET_SIZE, MAX_PACKET_SIZE + 1} :
         rWire' = Append(rWire, [id |-> Head(rInbox).id, size |-> z,
                                 re |-> Head(rInbox).id])
    /\ rInbox' = Tail(rInbox)
    /\ UNCHANGED <<pairVars, next_id, PairRest>>

PairNext ==
    \/ \E c \in Callers : PairTakeId(c)
    \/ \E c \in Callers : PairSendPacket(c)
    \/ \E c \in Callers : PairRecvLock(c)
    \/ \E c \in Callers : PairRecvPacket(c)
    \/ PairServerReply

PairIdle == PairInit

(***************************************************************************)
(* factorio-bridge: RconPacket::to_bytes and RconPacket::from_bytes.       *)
(***************************************************************************)
\* i32::to_le_bytes: the four bytes of the two's complement, low byte first
to_le_bytes(x) ==
    << x % 256, (x \div 256) % 256, (x \div 65536) % 256,
       (x \div 16777216) % 256 >>

\* i32::from_le_bytes
from_le_bytes(b) ==
    b[1] + 256 * b[2] + 65536 * b[3]
         + 16777216 * (IF b[4] >= 128 THEN b[4] - 256 ELSE b[4])

\* String::from_utf8_lossy on bytes of which only those below 128 can be
\* part of valid UTF-8: any other byte becomes U+FFFD (EF BF BD)
RECURSIVE from_utf8_lossy(_)
from_utf8_lossy(b) ==
    IF b = <<>> THEN <<>>
    ELSE (IF Head(b) < 128 THEN <<Head(b)>> ELSE <<239, 191, 189>>)
         \o from_utf8_lossy(Tail(b))

\* iter().position(|&b| b == 0): index from 0 of the first zero, or -1
RECURSIVE position_zero(_)
position_zero(b) ==
    IF b = <<>> THEN -1
    ELSE IF Head(b) = 0 THEN 0
    ELSE LET r == position_zero(Tail(b))
         IN  IF r = -1 THEN -1 ELSE r + 1

to_bytes(pkt) ==
    LET size == 4 + 4 + Len(pkt.body) + 2
    IN  to_le_bytes(size) \o to_le_bytes(pkt.id) \o to_le_bytes(pkt.packet_type)
        \o pkt.body \o <<0>> \o <<0>>

from_bytes(data) ==
    IF Len(data) < MIN_PACKET_SIZE
    THEN [kind |-> "ProtocolError", id |-> 0, packet_type |-> 0, body |-> <<>>]
    ELSE LET rest == SubSeq(data, 9, Len(data))
             pos == position_zero(rest)
             body_end == IF pos = -1 THEN Len(data) - 8 ELSE pos
         IN  [kind |-> "Ok",
              id |-> from_le_bytes(SubSeq(data, 1, 4)),
              packet_type |-> from_le_bytes(SubSeq(data, 5, 8)),
              body |-> from_utf8_lossy(SubSeq(data, 9, 8 + body_end))]

\* packet ids: small, negative, multi-byte and the ends of the i32 range
PacketIds == {1, -1, 258, 2147483647, -2147483647}
\* packet_type: EXEC_COMMAND, AUTH and another i32
PacketTypes == {2, 3, 0}
\* bytes of a body: NUL, '/' and 'c'
BodyBytes == {0, 47, 99}

RECURSIVE SeqsUpTo(_, _)
SeqsUpTo(S, n) ==
    IF n = 0 THEN {<<>>}
    ELSE LET shorter == SeqsUpTo(S, n - 1)
         IN  shorter \cup {Append(q, x) : q \in shorter, x \in S}

Packets ==
    [id : PacketIds, packet_type : PacketTypes, body : SeqsUpTo(BodyBytes, MaxBody)]

NotParsed == [kind |-> "None", id |-> 0, packet_type |-> 0, body |-> <<>>]

PacketInit ==
    /\ pPkt \in Packets
    /\ pBuf = <<>>
    /\ pParsed = NotParsed
    /\ pPhase = "new"

PacketEncode ==
    /\ UNCHANGED notPacket
    /\ pPhase = "new"
    /\ pBuf' = to_bytes(pPkt)
    /\ pPhase' = "encoded"
    /\ UNCHANGED <<pPkt, pParsed>>

PacketDecode ==
    /\ UNCHANGED notPacket
    /\ pPhase = "encoded"
    /\ pParsed' = from_bytes(SubSeq(pBuf, 5, Len(pBuf)))
    /\ pPhase' = "decoded"
    /\ UNCHANGED <<pPkt, pBuf>>

PacketNext ==
    \/ PacketEncode
    \/ PacketDecode

(***************************************************************************)
(* factorio-bridge: ObservationReader (observer.rs) and                    *)
(* FactorioBridge::reset (bridge.rs).                                      *)
(***************************************************************************)
\* ticks an observation written by the game may carry
TickValues == {5, 6, 7, 9}
\* contents of observation.json that hold no observation
NoObservation == {"missing", "empty", "garbage", "unreadable"}
File(k, t) == [kind |-> k, tick |-> t]

\* mutant of IsNew: an equal tick counts as new
IsNewOrEqual(tick, last) == tick >= last

\* read_current: obs.tick > self.last_tick
IsNew(tick, last) == tick > last

ReadNone(last) == [res |-> "None", tick |-> 0, last |-> last]
ReadErr(e, last) == [res |-> e, tick |-> 0, last |-> last]

\* read_current on a file with this content, last_tick being last:
\* the result, the tick returned and the new last_tick
read_current(content, last) ==
    IF content.kind = "missing" THEN ReadNone(last)
    ELSE IF content.kind = "unreadable" THEN ReadErr("IpcError", last)
    ELSE IF content.kind = "empty" THEN ReadNone(last)
    ELSE IF content.kind = "garbage" THEN ReadErr("SerializationError", last)
    ELSE IF IsNew(content.tick, last)
         THEN [res |-> "Some", tick |-> content.tick, last |-> content.tick]
         ELSE ReadNone(last)

ObserverInit ==
    /\ obsFile = File("missing", 0)
    /\ last_tick = 0
    /\ oSeen = <<>>
    /\ oEmitted = <<>>
    /\ oLast = [content |-> File("missing", 0), res |-> "None", before |-> 0]
    /\ rsPc = "idle"
    /\ rsFirst = <<>>
    /\ rsWrites = 0
    /\ rsStale = FALSE
    /\ rsResult = [kind |-> "None", tick |-> 0, at |-> "none"]

\* the effect of one read_current call on the reader and on the histories
DoReadCurrent(r) ==
    /\ last_tick' = r.last
    /\ oLast' = [content |-> obsFile, res |-> r.res, before |-> last_tick]
    /\ oSeen' = IF obsFile.kind \in NoObservation THEN oSeen
                ELSE Append(oSeen, obsFile.tick)
    /\ oEmitted' = IF r.res = "Some" THEN Append(oEmitted, r.tick)
                   ELSE oEmitted

CanRead(max) == obsFile.kind \in NoObservation \/ Len(oSeen) < max

\* the file has changed once more since reset cleared it
FileChanged ==
    rsWrites' = IF rsPc = "idle" THEN rsWrites ELSE Min(rsWrites + 1, 2)

\* the game writes an observation
GameWrite ==
    /\ UNCHANGED notObserver
    /\ \E t \in TickValues : obsFile' = File("observation", t)
    /\ rsStale' = FALSE
    /\ FileChanged
    /\ rsFirst' = IF rsPc \in {"rcon", "waiting"} /\ rsWrites = 0
                  THEN <<obsFile'.tick>> ELSE rsFirst
    /\ UNCHANGED <<last_tick, oSeen, oEmitted, oLast, rsPc, rsResult>>

\* the file is removed, truncated, corrupted or made unreadable
FileChange ==
    /\ UNCHANGED notObserver
    /\ \E c \in NoObservation : obsFile' = File(c, 0) /\ c /= obsFile.kind
    /\ rsStale' = FALSE
    /\ FileChanged
    /\ UNCHANGED <<last_tick, oSeen, oEmitted, oLast, rsPc, rsFirst,
                   rsResult>>

\* a caller calls read_current
ReadCurrent ==
    /\ UNCHANGED notObserver
    /\ rsPc = "idle"
    /\ CanRead(MaxReads)
    /\ DoReadCurrent(read_current(obsFile, last_tick))
    /\ UNCHANGED <<obsFile, rsPc, rsFirst, rsWrites, rsStale, rsResult>>

\* state_hash with an empty RCON response: one read_current
StateHashRead ==
    /\ UNCHANGED notObserver
    /\ rsPc \in {"idle", "done"}
    /\ CanRead(MaxResetReads)
    /\ DoReadCurrent(read_current(obsFile, last_tick))
    /\ UNCHANGED <<obsFile, rsPc, rsFirst, rsWrites, rsStale, rsResult>>

\* reset: observer.clear()
ResetClear ==
    /\ UNCHANGED notObserver
    /\ rsPc \in {"idle", "done"}
    /\ rsFirst' = <<>>
    /\ rsWrites' = 0
    /\ rsStale' = FALSE
    /\ IF obsFile.kind = "unreadable"
       THEN /\ rsPc' = "done"
            /\ rsResult' = [kind |-> "IpcError", tick |-> 0, at |-> "clear"]
            /\ UNCHANGED obsFile
       ELSE /\ rsPc' = "rcon"
            /\ obsFile' = IF obsFile.kind = "missing" THEN obsFile
                          ELSE File("empty", 0)
            /\ UNCHANGED rsResult
    /\ UNCHANGED <<last_tick, oSeen, oEmitted, oLast>>

\* reset: rcon.lua of the reset command, which succeeds or fails
ResetCommand ==
    /\ UNCHANGED notObserver
    /\ rsPc = "rcon"
    /\ \E ok \in BOOLEAN :
         IF ok
         THEN rsPc' = "waiting" /\ UNCHANGED rsResult
         ELSE /\ rsPc' = "done"
              /\ rsResult' = [kind |-> "IpcError", tick |-> 0, at |-> "command"]
    /\ UNCHANGED <<obsFile, last_tick, oSeen, oEmitted, oLast, rsFirst,
                   rsWrites, rsStale>>

\* reset: one round of the loop of wait_for_observation
ResetPoll ==
    /\ UNCHANGED notObserver
    /\ rsPc = "waiting"
    /\ CanRead(MaxResetReads)
    /\ ~rsStale
    /\ LET r == read_current(obsFile, last_tick)
       IN  /\ DoReadCurrent(r)
           /\ IF r.res = "Some"
              THEN /\ rsPc' = "done"
                   /\ rsResult' = [kind |-> "Ok", tick |-> r.tick, at |-> "wait"]
                   /\ UNCHANGED rsStale
              ELSE IF r.res = "None"
              THEN /\ rsStale' = TRUE
                   /\ UNCHANGED <<rsPc, rsResult>>
              ELSE /\ rsPc' = "done"
                   /\ rsResult' = [kind |-> r.res, tick |-> 0, at |-> "wait"]
                   /\ UNCHANGED rsStale
    /\ UNCHANGED <<obsFile, rsFirst, rsWrites>>

\* reset: wait_for_observation gives up after config.timeout
ResetTimeout ==
    /\ UNCHANGED notObserver
    /\ rsPc = "waiting"
    /\ rsStale
    /\ rsPc' = "done"
    /\ rsResult' = [kind |-> "Timeout", tick |-> 0, at |-> "wait"]
    /\ UNCHANGED <<obsFile, last_tick, oSeen, oEmitted, oLast, rsFirst,
                   rsWrites, rsStale>>

\* step: rcon.lua of the step command, which succeeds or fails; on success
\* wait_for_observation starts.  Nothing clears the observation file or
\* looks at what it holds when the command is issued.
StepCommand ==
    /\ UNCHANGED notObserver
    /\ rsPc \in {"idle", "done"}
    /\ rsFirst' = <<>>
    /\ rsWrites' = 0
    /\ rsStale' = FALSE
    /\ \E ok \in BOOLEAN :
         IF ok
         THEN rsPc' = "waiting" /\ UNCHANGED rsResult
         ELSE /\ rsPc' = "done"
              /\ rsResult' = [kind |-> "IpcError", tick |-> 0, at |-> "command"]
    /\ UNCHANGED <<obsFile, last_tick, oSeen, oEmitted, oLast>>

\* step: the game writes, and the loop of wait_for_observation runs
StepNext ==
    \/ GameWrite
    \/ FileChange
    \/ StepCommand
    \/ ResetPoll
    \/ ResetTimeout

ObserverNext ==
    \/ GameWrite
    \/ FileChange
    \/ ReadCurrent

ResetNext ==
    \/ GameWrite
    \/ FileChange
    \/ StateHashRead
    \/ ResetClear
    \/ ResetCommand
    \/ ResetPoll
    \/ ResetTimeout

(***************************************************************************)
(* The dispatch server: handle_request (game-rl-server/src/transport/      *)
(* stdio.rs) and the tool handlers (game-rl-server/src/tools.rs) over the  *)
(* registry and a GameEnvironment.  Each invocation of the environment is  *)
(* a round trip to the remote peer; what it answers is the environment's.  *)
(***************************************************************************)
ToolOk == [kind |-> "Ok", err |-> "none"]
ToolErr(e) == [kind |-> "Err", err |-> e]

\* the errors the environment's methods are taken to return
EnvErrors ==
    {"AgentNotRegistered", "InvalidAction", "EpisodeTerminated", "SyncTimeout",
     "IpcError", "GameError"}

\* what a call of a GameEnvironment method can return
EnvResults == {ToolOk} \cup {ToolErr(e) : e \in EnvErrors}

\* the agent ids tool calls are made with
ToolAgentIds == {"a", "b"}

\* the enum of AgentType in the input schema of register_agent
SchemaAgentTypes ==
    {"Observer", "Player", "Entity", "Controller", "System", "Director"}

\* the unit variants of AgentType, as serde names them
UnitAgentTypes ==
    {"EntityBehavior", "Player", "StrategyController", "ColonyManager",
     "WorldSimulation", "GameMaster", "DialogueAgent", "CombatDirector"}

\* the AgentType strings tool calls are made with
ArgAgentTypes == SchemaAgentTypes \cup AgentTypes

\* Deserialize for AgentType, of a JSON string
deserialize_agent_type(s) ==
    IF s \in UnitAgentTypes
    THEN [ok |-> TRUE, value |-> s]
    ELSE [ok |-> FALSE, value |-> ""]

\* what a handler did: its result, the registry after it, the environment
\* methods it invoked, and what the registry answered
Handled(result, ag, env, reg) ==
    [result |-> result, agents |-> ag, env |-> env, reg |-> reg]

\* a register_agent handler that goes to the environment before the registry
handle_register_agent_env_first(ty, id, ag, max, envRes) ==
    LET p == deserialize_agent_type(ty)
        r == RegistryRegister(ag, max, id, p.value)
    IN  IF ~p.ok
        THEN Handled(ToolErr("SerializationError"), ag, <<>>, "none")
        ELSE IF envRes.kind = "Err"
        THEN Handled(envRes, ag, <<"register_agent">>, "none")
        ELSE IF r.res /= "Ok"
        THEN Handled(ToolErr("ResourceExhausted"), ag, <<"register_agent">>,
                     r.res)
        ELSE Handled(ToolOk, r.agents, <<"register_agent">>, r.res)

\* handle_register_agent: parameters, then the registry, then the environment
handle_register_agent(ty, id, ag, max, envRes) ==
    LET p == deserialize_agent_type(ty)
        r == RegistryRegister(ag, max, id, p.value)
    IN  IF ~p.ok
        THEN Handled(ToolErr("SerializationError"), ag, <<>>, "none")
        ELSE IF r.res /= "Ok"
        THEN Handled(ToolErr("ResourceExhausted"), ag, <<>>, r.res)
        ELSE Handled(envRes, r.agents, <<"register_agent">>, r.res)

\* handle_deregister_agent: the environment first, then the registry, whose
\* answer is dropped
handle_deregister_agent(argsOk, id, ag, envRes) ==
    LET r == RegistryDeregister(ag, id)
    IN  IF ~argsOk
        THEN Handled(ToolErr("SerializationError"), ag, <<>>, "none")
        ELSE IF envRes.kind = "Err"
        THEN Handled(envRes, ag, <<"deregister_agent">>, "none")
        ELSE Handled(ToolOk, r.agents, <<"deregister_agent">>, r.res)

\* handle_sim_step: the environment's step, then record_step
handle_sim_step(argsOk, id, reward, ag, envRes) ==
    IF ~argsOk
    THEN Handled(ToolErr("SerializationError"), ag, <<>>, "none")
    ELSE IF envRes.kind = "Err"
    THEN Handled(envRes, ag, <<"step">>, "none")
    ELSE Handled(ToolOk, RegistryRecordStep(ag, id, reward), <<"step">>,
                 "Ok")

\* handle_reset, handle_state_hash, handle_configure_streams: the handlers
\* that do not touch the registry
handle_env_only(argsOk, method, ag, envRes) ==
    IF ~argsOk
    THEN Handled(ToolErr("SerializationError"), ag, <<>>, "none")
    ELSE Handled(envRes, ag, <<method>>, "none")

\* a mapping that has no arm for SyncTimeout
error_code_no_timeout(e) ==
    CASE e = "AgentNotRegistered" -> AGENT_NOT_REGISTERED
      [] e = "InvalidAction" -> INVALID_ACTION
      [] e = "EpisodeTerminated" -> EPISODE_TERMINATED
      [] e = "ResourceExhausted" -> RESOURCE_EXHAUSTED
      [] OTHER -> INTERNAL_ERROR

\* handle_tool_call: the code of an error
error_code(e) ==
    CASE e = "AgentNotRegistered" -> AGENT_NOT_REGISTERED
      [] e = "InvalidAction" -> INVALID_ACTION
      [] e = "EpisodeTerminated" -> EPISODE_TERMINATED
      [] e = "SyncTimeout" -> SYNC_TIMEOUT
      [] e = "ResourceExhausted" -> RESOURCE_EXHAUSTED
      [] OTHER -> INTERNAL_ERROR

Methods ==
    {"initialize", "initialized", "tools/list", "tools/call",
     "resources/list", "resources/read"}
\* methods the server does not have
OtherMethods == {"ping", "tools/run"}
OtherToolNames == {"step"}
ResourceUris == {"game://manifest", "game://agents", "game://other"}

\* a Response, with what the request was and what serving it did
Response(method, tool, id, ty, known, kind, code, err, env, reg, body) ==
    [method |-> method, tool |-> tool, id |-> id, agent_type |-> ty,
     known |-> known, kind |-> kind, code |-> code, err |-> err, env |-> env,
     reg |-> reg, agents |-> body.agents, available_slots |-> body.slots]

NoBody == [agents |-> {}, slots |-> 0]

\* Response::success and Response::error of a request that is no tool call
Success(method, id, body) ==
    Response(method, "", id, "", FALSE, "success", 0, "none", <<>>, "none",
             body)
Failure(method, id, code) ==
    Response(method, "", id, "", FALSE, "error", code, "none", <<>>, "none",
             NoBody)

\* handle_tool_call: the Response for what the handler returned
ToolResponse(tool, id, ty, known, h) ==
    IF h.result.kind = "Ok"
    THEN Response("tools/call", tool, id, ty, known, "success", 0, "none",
                  h.env, h.reg, NoBody)
    ELSE Response("tools/call", tool, id, ty, known, "error",
                  error_code(h.result.err), h.result.err, h.env, h.reg, NoBody)

ToolsInit ==
    response = Response("none", "", "", "", FALSE, "none", 0, "none", <<>>,
                        "none", NoBody)

\* handle_initialize
HandleInitialize ==
    /\ UNCHANGED <<notTools, registryVars>>
    /\ \E paramsOk \in BOOLEAN :
        response' = IF paramsOk THEN Success("initialize", "", NoBody)
                    ELSE Failure("initialize", "", INVALID_PARAMS)

\* the "initialized" arm of handle_request
HandleInitialized ==
    /\ UNCHANGED <<notTools, registryVars>>
    /\ response' = Success("initialized", "", NoBody)

\* handle_tools_list
HandleToolsList ==
    /\ UNCHANGED <<notTools, registryVars>>
    /\ response' = Success("tools/list", "", NoBody)

\* handle_resources_list
HandleResourcesList ==
    /\ UNCHANGED <<notTools, registryVars>>
    /\ response' = Success("resources/list", "", NoBody)

\* handle_resources_read: the content of game://agents is built from the
\* manifest alone
HandleResourcesRead ==
    /\ UNCHANGED <<notTools, registryVars>>
    /\ \E paramsOk \in BOOLEAN, uri \in ResourceUris :
        response' =
            IF ~paramsOk THEN Failure("resources/read", "", INVALID_PARAMS)
            ELSE IF uri = "game://manifest"
            THEN Success("resources/read", uri, NoBody)
            ELSE IF uri = "game://agents"
            THEN Success("resources/read", uri,
                         [agents |-> {}, slots |-> max_agents])
            ELSE Failure("resources/read", uri, INVALID_PARAMS)

\* the last arm of handle_request
HandleUnknownMethod ==
    /\ UNCHANGED <<notTools, registryVars>>
    /\ \E m \in OtherMethods : response' = Failure(m, "", METHOD_NOT_FOUND)

\* handle_tools_call with parameters that are no ToolCallParams
HandleToolsCallInvalid ==
    /\ UNCHANGED <<notTools, registryVars>>
    /\ response' = Failure("tools/call", "", INVALID_PARAMS)

ToolRegisterAgent ==
    /\ UNCHANGED notTools
    /\ \E id \in ToolAgentIds, ty \in ArgAgentTypes, envRes \in EnvResults :
        LET h == handle_register_agent(ty, id, agents, max_agents, envRes)
        IN  /\ agents' = h.agents
            /\ response' = ToolResponse("register_agent", id, ty,
                                        id \in DOMAIN agents, h)
            /\ regLast' = IF h.reg = "none" THEN regLast
                          ELSE Call("register", id, h.reg)
            /\ UNCHANGED max_agents

ToolDeregisterAgent ==
    /\ UNCHANGED notTools
    /\ \E id \in ToolAgentIds, argsOk \in BOOLEAN, envRes \in EnvResults :
        LET h == handle_deregister_agent(argsOk, id, agents, envRes)
        IN  /\ agents' = h.agents
            /\ response' = ToolResponse("deregister_agent", id, "",
                                        id \in DOMAIN agents, h)
            /\ regLast' = IF h.reg = "none" THEN regLast
                          ELSE Call("deregister", id, h.reg)
            /\ UNCHANGED max_agents

ToolSimStep ==
    /\ UNCHANGED notTools
    /\ \E id \in ToolAgentIds, argsOk \in BOOLEAN, reward \in Rewards,
          envRes \in EnvResults :
        LET h == handle_sim_step(argsOk, id, reward, agents, envRes)
        IN  /\ id \in DOMAIN agents => agents[id].last_step < MaxSteps
            /\ agents' = h.agents
            /\ response' = ToolResponse("sim_step", id, "",
                                        id \in DOMAIN agents, h)
            /\ regLast' = IF h.reg = "none" THEN regLast
                          ELSE Call("record_step", id, h.reg)
            /\ UNCHANGED max_agents

EnvOnly(tool, method, withArgs) ==
    \E argsOk \in (IF withArgs THEN BOOLEAN ELSE {TRUE}),
       envRes \in EnvResults :
        LET h == handle_env_only(argsOk, method, agents, envRes)
        IN  /\ response' = ToolResponse(tool, "", "", FALSE, h)
            /\ UNCHANGED registryVars

ToolReset ==
    /\ UNCHANGED notTools
    /\ EnvOnly("reset", "reset", TRUE)

ToolStateHash ==
    /\ UNCHANGED notTools
    /\ EnvOnly("get_state_hash", "state_hash", FALSE)

ToolConfigureStreams ==
    /\ UNCHANGED notTools
    /\ EnvOnly("configure_streams", "configure_streams", TRUE)

\* the last arm of handle_tool_call
ToolUnknown ==
    /\ UNCHANGED <<notTools, registryVars>>
    /\ \E name \in OtherToolNames :
        response' = ToolResponse(name, "", "", FALSE,
                        Handled(ToolErr("ProtocolError"), agents, <<>>,
                                "none"))

ToolsNext ==
    \/ HandleInitialize
    \/ HandleInitialized
    \/ HandleToolsList
    \/ HandleResourcesList
    \/ HandleResourcesRead
    \/ HandleUnknownMethod
    \/ HandleToolsCallInvalid
    \/ ToolRegisterAgent
    \/ ToolDeregisterAgent
    \/ ToolSimStep
    \/ ToolReset
    \/ ToolStateHash
    \/ ToolConfigureStreams
    \/ ToolUnknown

(***************************************************************************)
(* GameMessage and its JSON form (game-bridge/src/protocol.rs, with the    *)
(* types of game-rl-core it carries).  A JSON text is taken as the tree it *)
(* denotes: serde_json writes one text per tree and parses it back to the  *)
(* same tree, object entries in the order written, repeated keys kept.  A  *)
(* Rust value is a tree of the same nodes whose field k names the variant  *)
(* of an enum ("None" for Option::None, "NaN" for a float that is not      *)
(* finite) and is "" everywhere in a JSON tree; a struct is the "obj" node *)
(* of all its fields, a map the "obj" node of its entries.                 *)
(***************************************************************************)
Node(t, n, s, k, keys, vals) ==
    [t |-> t, n |-> n, s |-> s, k |-> k, keys |-> keys, vals |-> vals]

JNull == Node("null", 0, "", "", <<>>, <<>>)
JNum(n) == Node("num", n, "", "", <<>>, <<>>)
JStr(s) == Node("str", 0, s, "", <<>>, <<>>)
JBool(b) == Node("bool", IF b THEN 1 ELSE 0, "", "", <<>>, <<>>)
JArr(vals) == Node("arr", 0, "", "", <<>>, vals)
JObj(keys, vals) == Node("obj", 0, "", "", keys, vals)

\* a serde_json::Error
Fail == Node("fail", 0, "", "", <<>>, <<>>)
Failed(v) == v.t = "fail"

Kind(v, k) == [v EXCEPT !.k = k]
None == Kind(JNull, "None")
NaN == Kind(JNull, "NaN")

\* one field of a struct or of a struct variant: its key on the wire, its
\* type, skip_serializing_if = "Option::is_none", and its serde default
\* (Fail: none)
F(key, ty, skip, dflt) == [key |-> key, ty |-> ty, skip |-> skip, dflt |-> dflt]
Req(key, ty) == F(key, ty, FALSE, Fail)

StepResultPayloadFields ==
    <<Req("AgentId", "String"), Req("Observation", "Observation"),
      Req("Reward", "f64"),
      F("RewardComponents", "HashMap<String,f64>", FALSE, JObj(<<>>, <<>>)),
      Req("Done", "bool"), Req("Truncated", "bool"),
      F("StateHash", "Option<String>", TRUE, Fail)>>

\* the fields of the structs
StructFields(ty) ==
    CASE ty = "StepResultPayload" -> StepResultPayloadFields
      [] ty = "GameCapabilities" ->
            <<Req("MultiAgent", "bool"), Req("MaxAgents", "usize"),
              Req("Deterministic", "bool"), Req("Headless", "bool")>>
      [] ty = "AgentConfig" ->
            <<F("EntityId", "Option<String>", TRUE, Fail),
              F("ObservationProfile", "String", FALSE, JStr("default")),
              F("ActionMask", "Vec<String>", FALSE, JArr(<<>>)),
              F("RewardShaping", "Option<RewardShaping>", TRUE, Fail),
              F("Extra", "HashMap<String,Value>", FALSE, JObj(<<>>, <<>>))>>
      [] ty = "RewardShaping" ->
            <<Req("Components", "Vec<String>"),
              F("Weights", "HashMap<String,f32>", FALSE, JObj(<<>>, <<>>))>>
      [] ty = "GameEvent" ->
            <<Req("type", "String"), Req("tick", "u64"),
              F("severity", "u8", FALSE, JNum(0)),
              F("details", "Value", FALSE, JNull)>>
      [] ty = "StreamDescriptor" ->
            <<Req("StreamId", "String"), Req("Width", "u32"),
              Req("Height", "u32"), Req("PixelFormat", "PixelFormat"),
              Req("RingCount", "u32"), Req("Transport", "StreamTransport"),
              F("Sync", "Option<StreamSync>", TRUE, Fail)>>

StructTypes ==
    {"StepResultPayload", "GameCapabilities", "AgentConfig", "RewardShaping",
     "GameEvent", "StreamDescriptor"}

\* the enums with tag = "Type", and the fields of their variants
TaggedTypes == {"GameMessage", "StreamTransport", "StreamSync"}

Variants(ty) ==
    CASE ty = "GameMessage" ->
            {"Ready", "StateUpdate", "AgentRegistered", "StepResult",
             "BatchStepResult", "ResetComplete", "StateHash",
             "StreamsConfigured", "Error", "RegisterAgent", "DeregisterAgent",
             "ExecuteAction", "Reset", "GetStateHash", "ConfigureStreams",
             "Shutdown"}
      [] ty = "StreamTransport" -> {"IOSurface", "Shm", "Dxgi", "Inline"}
      [] ty = "StreamSync" ->
            {"MetalEvent", "D3dFence", "Semaphore", "Polling"}

VariantFields(ty, variant) ==
    CASE ty = "GameMessage" /\ variant = "Ready" ->
            <<Req("Name", "String"), Req("Version", "String"),
              Req("Capabilities", "GameCapabilities")>>
      [] ty = "GameMessage" /\ variant = "StateUpdate" ->
            <<Req("Tick", "u64"), Req("State", "Value"),
              Req("Events", "Vec<GameEvent>")>>
      [] ty = "GameMessage" /\ variant = "AgentRegistered" ->
            <<Req("AgentId", "String"), Req("ObservationSpace", "Value"),
              Req("ActionSpace", "Value")>>
      \* #[serde(flatten)] result: StepResultPayload
      [] ty = "GameMessage" /\ variant = "StepResult" ->
            StepResultPayloadFields
      [] ty = "GameMessage" /\ variant = "BatchStepResult" ->
            <<Req("Results", "Vec<StepResultPayload>")>>
      [] ty = "GameMessage" /\ variant = "ResetComplete" ->
            <<Req("Observation", "Observation"),
              Req("StateHash", "Option<String>")>>
      [] ty = "GameMessage" /\ variant = "StateHash" ->
            <<Req("Hash", "String")>>
      [] ty = "GameMessage" /\ variant = "StreamsConfigured" ->
            <<Req("AgentId", "String"),
              Req("Descriptors", "Vec<StreamDescriptor>")>>
      [] ty = "GameMessage" /\ variant = "Error" ->
            <<Req("Code", "i32"), Req("Message", "String")>>
      [] ty = "GameMessage" /\ variant = "RegisterAgent" ->
            <<Req("AgentId", "String"), Req("AgentType", "AgentType"),
              Req("Config", "AgentConfig")>>
      [] ty = "GameMessage" /\ variant = "DeregisterAgent" ->
            <<Req("AgentId", "String")>>
      [] ty = "GameMessage" /\ variant = "ExecuteAction" ->
            <<Req("AgentId", "String"), Req("Action", "Action"),
              Req("Ticks", "u32")>>
      [] ty = "GameMessage" /\ variant = "Reset" ->
            <<Req("Seed", "Option<u64>"), Req("Scenario", "Option<String>")>>
      [] ty = "GameMessage" /\ variant = "ConfigureStreams" ->
            <<Req("AgentId", "String"), Req("Profile", "String")>>
      [] ty = "StreamTransport" /\ variant = "IOSurface" ->
            <<Req("surface_ids", "Vec<u64>")>>
      [] ty = "StreamTransport" /\ variant = "Shm" ->
            <<Req("shm_name", "String"), Req("offsets", "Vec<u64>")>>
      [] ty = "StreamTransport" /\ variant = "Dxgi" ->
            <<Req("shared_handles", "Vec<u64>")>>
      [] ty = "StreamSync" /\ variant \in {"MetalEvent", "D3dFence"} ->
            <<Req("handle", "u64")>>
      [] ty = "StreamSync" /\ variant = "Semaphore" ->
            <<Req("name", "String")>>
      \* GetStateHash, Shutdown, Inline, Polling
      [] OTHER -> <<>>

OptionTypes ==
    {"Option<String>", "Option<u64>", "Option<RewardShaping>",
     "Option<StreamSync>"}
VecTypes ==
    {"Vec<String>", "Vec<u64>", "Vec<f64>", "Vec<GameEvent>",
     "Vec<StreamDescriptor>", "Vec<StepResultPayload>"}
MapTypes == {"HashMap<String,f64>", "HashMap<String,f32>",
             "HashMap<String,Value>"}

\* T of Option<T>, Vec<T>, HashMap<String, T>
Inner(ty) ==
    CASE ty \in {"Option<String>", "Vec<String>"} -> "String"
      [] ty \in {"Option<u64>", "Vec<u64>"} -> "u64"
      [] ty = "Option<RewardShaping>" -> "RewardShaping"
      [] ty = "Option<StreamSync>" -> "StreamSync"
      [] ty \in {"Vec<f64>", "HashMap<String,f64>"} -> "f64"
      [] ty = "HashMap<String,f32>" -> "f32"
      [] ty = "HashMap<String,Value>" -> "Value"
      [] ty = "Vec<GameEvent>" -> "GameEvent"
      [] ty = "Vec<StreamDescriptor>" -> "StreamDescriptor"
      [] ty = "Vec<StepResultPayload>" -> "StepResultPayload"

\* PixelFormat, rename_all = "lowercase"
PixelFormats == {"rgba8", "bgra8", "rgb8", "r32f", "rg32f"}

\* the indices of the entries of an object with a key
RECURSIVE IndicesOf(_, _, _)
IndicesOf(keys, key, i) ==
    IF i > Len(keys) THEN <<>>
    ELSE (IF keys[i] = key THEN <<i>> ELSE <<>>)
            \o IndicesOf(keys, key, i + 1)

\* the indices up to n that satisfy a test, in order
Pick(n, Test(_)) == SelectSeq([i \in 1..n |-> i], Test)

AllNumbers(j) ==
    j.t = "arr" /\ \A i \in DOMAIN j.vals : j.vals[i].t = "num"

RECURSIVE ser(_, _)
RECURSIVE ser_fields(_, _)

\* Serialize for the fields of a struct: a field that is skipped if None
\* is left out
ser_fields(fields, v) ==
    LET kept == Pick(Len(fields),
                     LAMBDA i : ~(fields[i].skip /\ v.vals[i].k = "None"))
    IN  JObj([i \in DOMAIN kept |-> fields[kept[i]].key],
             [i \in DOMAIN kept |-> ser(fields[kept[i]].ty, v.vals[kept[i]])])

\* Serialize for the types a GameMessage is made of
ser(ty, v) ==
    CASE ty \in {"f64", "f32"} -> IF v.k = "NaN" THEN JNull ELSE v
      [] ty \in OptionTypes ->
            IF v.k = "None" THEN JNull ELSE ser(Inner(ty), v)
      [] ty \in VecTypes ->
            JArr([i \in DOMAIN v.vals |-> ser(Inner(ty), v.vals[i])])
      [] ty \in MapTypes ->
            JObj(v.keys, [i \in DOMAIN v.vals |-> ser(Inner(ty), v.vals[i])])
      [] ty \in StructTypes -> ser_fields(StructFields(ty), v)
      [] ty \in TaggedTypes ->
            LET o == ser_fields(VariantFields(ty, v.k), v)
            IN  JObj(<<"Type">> \o o.keys, <<JStr(v.k)>> \o o.vals)
      \* untagged: the content of the variant; the unit variant is null; the
      \* params of Parameterized are flattened next to "Type"
      [] ty = "Action" ->
            IF v.k = "Parameterized"
            THEN JObj(<<"Type">> \o v.keys, <<JStr(v.s)>> \o v.vals)
            ELSE Kind(v, "")
      [] ty = "Observation" -> Kind(v, "")
      \* externally tagged: a unit variant is its name
      [] ty = "AgentType" ->
            IF v.k = "Custom" THEN JObj(<<"Custom">>, <<JStr(v.s)>>)
            ELSE JStr(v.s)
      \* String, the integers, bool, PixelFormat, serde_json::Value
      [] OTHER -> v

RECURSIVE de(_, _)
RECURSIVE de_fields(_, _, _)

\* Deserialize for the fields of a struct: a key may come once; a missing
\* Option is None, a missing field with a default takes it; keys that are
\* no field are ignored
de_fields(fields, j, k) ==
    IF j.t /= "obj" THEN Fail
    ELSE
        LET at(i) == IndicesOf(j.keys, fields[i].key, 1)
            val(i) ==
                IF Len(at(i)) > 1 THEN Fail
                ELSE IF Len(at(i)) = 1
                THEN de(fields[i].ty, j.vals[at(i)[1]])
                ELSE IF fields[i].ty \in OptionTypes THEN None
                ELSE fields[i].dflt
            vals == [i \in DOMAIN fields |-> val(i)]
        IN  IF \E i \in DOMAIN fields : Failed(vals[i]) THEN Fail
            ELSE Node("obj", 0, "", k,
                      [i \in DOMAIN fields |-> fields[i].key], vals)

\* Deserialize for the types a GameMessage is made of
de(ty, j) ==
    CASE ty = "String" -> IF j.t = "str" THEN j ELSE Fail
      [] ty \in {"u64", "u32", "u8", "usize"} ->
            IF j.t = "num" /\ j.n >= 0 THEN j ELSE Fail
      [] ty \in {"i32", "i64"} -> IF j.t = "num" THEN j ELSE Fail
      [] ty = "bool" -> IF j.t = "bool" THEN j ELSE Fail
      [] ty \in {"f64", "f32"} -> IF j.t = "num" THEN j ELSE Fail
      [] ty = "Value" -> j
      [] ty = "PixelFormat" ->
            IF j.t = "str" /\ j.s \in PixelFormats THEN j ELSE Fail
      [] ty \in OptionTypes ->
            IF j.t = "null" THEN None ELSE de(Inner(ty), j)
      [] ty \in VecTypes ->
            IF j.t /= "arr" THEN Fail
            ELSE LET vals == [i \in DOMAIN j.vals |-> de(Inner(ty), j.vals[i])]
                 IN  IF \E i \in DOMAIN vals : Failed(vals[i]) THEN Fail
                     ELSE JArr(vals)
      [] ty \in MapTypes ->
            IF j.t /= "obj" THEN Fail
            ELSE LET vals == [i \in DOMAIN j.vals |-> de(Inner(ty), j.vals[i])]
                 IN  IF \E i \in DOMAIN vals : Failed(vals[i]) THEN Fail
                     ELSE JObj(j.keys, vals)
      [] ty \in StructTypes -> de_fields(StructFields(ty), j, "")
      \* the tag is read first, then the fields of the variant it names
      [] ty \in TaggedTypes ->
            IF j.t /= "obj" THEN Fail
            ELSE LET at == IndicesOf(j.keys, "Type", 1)
                 IN  IF Len(at) /= 1 THEN Fail
                     ELSE IF j.vals[at[1]].t /= "str"
                             \/ j.vals[at[1]].s \notin Variants(ty) THEN Fail
                     ELSE de_fields(VariantFields(ty, j.vals[at[1]].s), j,
                                    j.vals[at[1]].s)
      \* untagged: the first variant that accepts the value, in the order
      \* Discrete, Continuous, Parameterized, Wait
      [] ty = "Action" ->
            IF j.t = "num" THEN Kind(j, "Discrete")
            ELSE IF AllNumbers(j) THEN Kind(j, "Continuous")
            ELSE IF j.t = "obj"
                    /\ Len(IndicesOf(j.keys, "Type", 1)) = 1
                    /\ j.vals[IndicesOf(j.keys, "Type", 1)[1]].t = "str"
            THEN LET at == IndicesOf(j.keys, "Type", 1)[1]
                     rest == Pick(Len(j.keys), LAMBDA i : i /= at)
                 IN  Node("obj", 0, j.vals[at].s, "Parameterized",
                          [i \in DOMAIN rest |-> j.keys[rest[i]]],
                          [i \in DOMAIN rest |-> j.vals[rest[i]]])
            ELSE IF j.t = "null" THEN Kind(j, "Wait")
            ELSE Fail
      \* untagged: Structured, Vector, Custom
      [] ty = "Observation" ->
            IF j.t = "obj" THEN Kind(j, "Structured")
            ELSE IF AllNumbers(j) THEN Kind(j, "Vector")
            ELSE Kind(j, "Custom")
      [] ty = "AgentType" ->
            IF j.t = "str" /\ j.s \in UnitAgentTypes THEN j
            ELSE IF j.t = "obj" /\ j.keys = <<"Custom">>
                    /\ j.vals[1].t = "str"
            THEN Node("str", 0, j.vals[1].s, "Custom", <<>>, <<>>)
            ELSE Fail

\* serialize: serde_json::to_vec of the message
to_vec(msg) == ser("GameMessage", msg)

\* deserialize: serde_json::from_slice to a GameMessage
from_slice(bytes) == de("GameMessage", bytes)

(***************************************************************************)
(* The messages the round trip is made with.                               *)
(***************************************************************************)
\* a struct, a struct variant, a map
Struct(ty, vals) ==
    Node("obj", 0, "", "",
         [i \in DOMAIN StructFields(ty) |-> StructFields(ty)[i].key], vals)
Message(variant, vals) ==
    Node("obj", 0, "", variant,
         [i \in DOMAIN VariantFields("GameMessage", variant) |->
             VariantFields("GameMessage", variant)[i].key], vals)

JsonValues ==
    {JNull, JNum(1), JStr("x"), JArr(<<JNum(1)>>), JArr(<<JStr("x")>>),
     JObj(<<"k">>, <<JNum(1)>>)}

Maps == {JObj(<<>>, <<>>), JObj(<<"k">>, <<JNum(1)>>)}

Observations ==
    {Kind(m, "Structured") : m \in Maps}
        \cup {Kind(JArr(<<>>), "Vector"), Kind(JArr(<<JNum(1)>>), "Vector")}
        \cup {Kind(v, "Custom") : v \in JsonValues}

Actions ==
    {Kind(JNum(3), "Discrete"), Kind(JArr(<<>>), "Continuous"),
     Kind(JArr(<<JNum(1)>>), "Continuous"), Kind(JNull, "Wait"),
     Node("obj", 0, "wait", "Parameterized", <<>>, <<>>),
     Node("obj", 0, "set_work_priority", "Parameterized",
          <<"colonist_id", "priority">>, <<JStr("Human917"), JNum(1)>>),
     Node("obj", 0, "build", "Parameterized", <<"Type">>, <<JStr("wall")>>)}

OptStrings == {None, JStr("h")}

\* f64 values: a finite one and one that is not
Floats == {JNum(1), NaN}

Payloads ==
    {Struct("StepResultPayload",
            <<JStr("a"), o, r, m, JBool(TRUE), JBool(FALSE), h>>) :
        o \in Observations, r \in Floats, m \in Maps, h \in OptStrings}

Capabilities ==
    Struct("GameCapabilities", <<JBool(TRUE), JNum(4), JBool(TRUE), JBool(TRUE)>>)

Configs ==
    {Struct("AgentConfig",
            <<e, JStr("default"), JArr(<<>>), None, JObj(<<>>, <<>>)>>) :
        e \in OptStrings}
        \cup {Struct("AgentConfig",
                     <<None, JStr("full"), JArr(<<JStr("move")>>),
                       Struct("RewardShaping",
                              <<JArr(<<JStr("r")>>), JObj(<<"r">>, <<JNum(2)>>)>>),
                       JObj(<<"k">>, <<JStr("x")>>)>>)}

AgentTypeValues ==
    {JStr("Player"), JStr("ColonyManager"),
     Node("str", 0, "medic", "Custom", <<>>, <<>>)}

Events ==
    {JArr(<<>>),
     JArr(<<Struct("GameEvent", <<JStr("e"), JNum(7), JNum(0), JNull>>)>>)}

Descriptors ==
    {JArr(<<>>),
     JArr(<<Struct("StreamDescriptor",
                   <<JStr("s"), JNum(4), JNum(4), JStr("rgba8"), JNum(2),
                     Node("obj", 0, "", "Inline", <<>>, <<>>), None>>)>>),
     JArr(<<Struct("StreamDescriptor",
                   <<JStr("s"), JNum(4), JNum(4), JStr("rgb8"), JNum(2),
                     Node("obj", 0, "", "Shm", <<"shm_name", "offsets">>,
                          <<JStr("m"), JArr(<<JNum(0)>>)>>),
                     Node("obj", 0, "", "Semaphore", <<"name">>,
                          <<JStr("n")>>)>>)>>)}

GameMessages ==
    {Message("Ready", <<JStr("TestGame"), JStr("1.0.0"), Capabilities>>)}
    \cup {Message("StateUpdate", <<JNum(7), v, e>>) :
            v \in JsonValues, e \in Events}
    \cup {Message("AgentRegistered", <<JStr("a"), v, v>>) : v \in JsonValues}
    \cup {Message("StepResult", p.vals) : p \in Payloads}
    \cup {Message("BatchStepResult", <<JArr(<<>>)>>)}
    \cup {Message("BatchStepResult", <<JArr(<<p>>)>>) : p \in Payloads}
    \cup {Message("ResetComplete", <<o, h>>) :
            o \in Observations, h \in OptStrings}
    \cup {Message("StateHash", <<JStr("h")>>)}
    \cup {Message("StreamsConfigured", <<JStr("a"), d>>) : d \in Descriptors}
    \cup {Message("Error", <<JNum(c), JStr("m")>>) : c \in {-1, 0}}
    \cup {Message("RegisterAgent", <<JStr("a"), ty, c>>) :
            ty \in AgentTypeValues, c \in Configs}
    \cup {Message("DeregisterAgent", <<JStr("a")>>)}
    \cup {Message("ExecuteAction", <<JStr("a"), act, JNum(1)>>) :
            act \in Actions}
    \cup {Message("Reset", <<s, h>>) :
            s \in {None, JNum(42)}, h \in OptStrings}
    \cup {Message("GetStateHash", <<>>)}
    \cup {Message("ConfigureStreams", <<JStr("a"), JStr("p")>>)}
    \cup {Message("Shutdown", <<>>)}

CodecInit ==
    /\ gmMsg \in GameMessages
    /\ gmBytes = JNull
    /\ gmDecoded = JNull
    /\ gmPhase = "new"

\* serialize(&msg)
MessageSerialize ==
    /\ UNCHANGED notCodec
    /\ gmPhase = "new"
    /\ gmBytes' = to_vec(gmMsg)
    /\ gmPhase' = "serialized"
    /\ UNCHANGED <<gmMsg, gmDecoded>>

\* deserialize(&bytes)
MessageDeserialize ==
    /\ UNCHANGED notCodec
    /\ gmPhase = "serialized"
    /\ gmDecoded' = from_slice(gmBytes)
    /\ gmPhase' = "deserialized"
    /\ UNCHANGED <<gmMsg, gmBytes>>

CodecNext ==
    \/ MessageSerialize
    \/ MessageDeserialize

(***************************************************************************)
(* Framing (game-bridge/src/tcp.rs, unix.rs): write_message and            *)
(* read_message on the two ends of one byte stream.  A byte string is kept *)
(* run-length encoded, as a sequence of runs of n equal bytes b, so that a *)
(* payload of 64 MiB is one run; every operation counts bytes.             *)
(***************************************************************************)
Run(n, b) == [n |-> n, b |-> b]

RECURSIVE ByteLen(_)
ByteLen(s) == IF s = <<>> THEN 0 ELSE Head(s).n + ByteLen(Tail(s))

\* the one encoding of a byte string: no empty run, no two adjacent runs of
\* the same byte
RECURSIVE Canon(_)
Canon(s) ==
    IF s = <<>> THEN <<>>
    ELSE IF Head(s).n = 0 THEN Canon(Tail(s))
    ELSE IF Len(s) >= 2 /\ s[2].b = Head(s).b
    THEN Canon(<<Run(Head(s).n + s[2].n, Head(s).b)>> \o Tail(Tail(s)))
    ELSE <<Head(s)>> \o Canon(Tail(s))

\* the first k bytes of s, and s without them
RECURSIVE TakeBytes(_, _)
TakeBytes(s, k) ==
    IF k = 0 \/ s = <<>> THEN <<>>
    ELSE IF Head(s).n <= k
    THEN <<Head(s)>> \o TakeBytes(Tail(s), k - Head(s).n)
    ELSE <<Run(k, Head(s).b)>>

RECURSIVE DropBytes(_, _)
DropBytes(s, k) ==
    IF k = 0 \/ s = <<>> THEN s
    ELSE IF Head(s).n <= k
    THEN DropBytes(Tail(s), k - Head(s).n)
    ELSE <<Run(Head(s).n - k, Head(s).b)>> \o Tail(s)

\* the bytes of a short string, one by one
RECURSIVE Expand(_)
Expand(s) ==
    IF s = <<>> THEN <<>>
    ELSE [i \in 1..Head(s).n |-> Head(s).b] \o Expand(Tail(s))

Runs(bs) == [i \in 1..Len(bs) |-> Run(1, bs[i])]

\* u32::from_le_bytes(len_bytes) as usize.  A value of 2^31 or more is
\* above every bound it is compared with and is kept as the largest integer
\* below 2^31.
u32_from_le_bytes(b) ==
    IF b[4] >= 128 THEN 2147483647
    ELSE b[1] + 256 * b[2] + 65536 * b[3] + 16777216 * b[4]

Pending == [res |-> "Pending", data |-> <<>>, rest |-> <<>>]

\* a read_message that turns away a payload of exactly 64 MiB
read_message_exclusive(bytes) ==
    IF ByteLen(bytes) < 4 THEN Pending
    ELSE LET len == u32_from_le_bytes(Expand(TakeBytes(bytes, 4)))
             body == DropBytes(bytes, 4)
         IN  IF len >= MAX_MESSAGE_SIZE
             THEN [res |-> "Err", data |-> <<>>, rest |-> body]
             ELSE IF ByteLen(body) < len THEN Pending
             ELSE [res |-> "Ok", data |-> Canon(TakeBytes(body, len)),
                   rest |-> DropBytes(body, len)]

\* TcpReadWrapper::read_message: read_exact of 4 bytes, the size check,
\* read_exact of len bytes.  read_exact waits ("Pending") while the stream
\* holds fewer bytes than asked for.
tcp_read_message(bytes) ==
    IF ByteLen(bytes) < 4 THEN Pending
    ELSE LET len == u32_from_le_bytes(Expand(TakeBytes(bytes, 4)))
             body == DropBytes(bytes, 4)
         IN  IF len > MAX_MESSAGE_SIZE
             THEN [res |-> "Err", data |-> <<>>, rest |-> body]
             ELSE IF ByteLen(body) < len THEN Pending
             ELSE [res |-> "Ok", data |-> Canon(TakeBytes(body, len)),
                   rest |-> DropBytes(body, len)]

\* UnixReadWrapper::read_message
unix_read_message(bytes) ==
    IF ByteLen(bytes) < 4 THEN Pending
    ELSE LET len == u32_from_le_bytes(Expand(TakeBytes(bytes, 4)))
             body == DropBytes(bytes, 4)
         IN  IF len > MAX_MESSAGE_SIZE
             THEN [res |-> "Err", data |-> <<>>, rest |-> body]
             ELSE IF ByteLen(body) < len THEN Pending
             ELSE [res |-> "Ok", data |-> Canon(TakeBytes(body, len)),
                   rest |-> DropBytes(body, len)]

\* TcpWriteWrapper::write_message: write_all of (data.len() as u32)
\* .to_le_bytes(), write_all of data, flush.  The cast is the identity for
\* the lengths of this model, all below 2^31.
tcp_write_message(bytes, data) ==
    Canon(bytes \o Runs(to_le_bytes(ByteLen(data))) \o data)

\* UnixWriteWrapper::write_message
unix_write_message(bytes, data) ==
    Canon(bytes \o Runs(to_le_bytes(ByteLen(data))) \o data)

read_message(t, bytes) ==
    IF t = "tcp" THEN tcp_read_message(bytes) ELSE unix_read_message(bytes)

write_message(t, bytes, data) ==
    IF t = "tcp" THEN tcp_write_message(bytes, data)
    ELSE unix_write_message(bytes, data)

\* payloads: empty, one byte, four zero bytes (the bytes of the prefix of an
\* empty frame), the largest payload a reader accepts, and one byte more
FramePayloads ==
    {<<>>, <<Run(1, 1)>>, <<Run(4, 0)>>, <<Run(MAX_MESSAGE_SIZE, 0)>>,
     <<Run(MAX_MESSAGE_SIZE + 1, 0)>>}

FramingInit ==
    /\ fTransport \in {"tcp", "unix"}
    /\ fStream = <<>>
    /\ fWritten = <<>>
    /\ fRead = <<>>
    /\ fFailed = FALSE

\* one end calls write_message(data)
WriteMessage ==
    /\ Len(fWritten) < MaxFrames
    /\ \E data \in FramePayloads :
         /\ fStream' = write_message(fTransport, fStream, data)
         /\ fWritten' = Append(fWritten, data)
    /\ UNCHANGED <<fTransport, fRead, fFailed, notFraming>>

\* the other end calls read_message; after an Err its reader_task has left
\* the loop and reads no more
ReadMessageBytes ==
    /\ ~fFailed
    /\ LET r == read_message(fTransport, fStream)
       IN  /\ r.res /= "Pending"
           /\ fStream' = r.rest
           /\ IF r.res = "Ok"
              THEN fRead' = Append(fRead, r.data) /\ UNCHANGED fFailed
              ELSE fFailed' = TRUE /\ UNCHANGED fRead
    /\ UNCHANGED <<fTransport, fWritten, notFraming>>

FramingNext ==
    \/ WriteMessage
    \/ ReadMessageBytes

(***************************************************************************)
(* zomboid-bridge: ZomboidBridge, the file-poll bridge.  The bridge writes *)
(* commands to the command file and polls the response file; the game     *)
(* reads the command file and writes the response file.  Time is counted   *)
(* in poll intervals: every sleep(poll_interval) of a wait adds one to     *)
(* start.elapsed(), and response_timeout is TimeoutPolls intervals.  The   *)
(* bridge's calls take &mut self: one call at a time.                      *)
(***************************************************************************)
NoFile == [kind |-> "empty", n |-> 0]
Command(k, n) == [kind |-> k, n |-> n]
\* a message of the game in the response file, written in reply to command n
Reply(k, n) == [kind |-> k, n |-> n]

ZRet(o, k, m, r, c) == [op |-> o, kind |-> k, msg |-> m, re |-> r, cmd |-> c]
ResponseTimeoutMsg == "IPC error: Response timeout"
ZNotConnectedMsg == "IPC error: Not connected"
WriteCommandFailedMsg == "IPC error: Failed to write command: Permission denied"

ZomboidInit ==
    /\ status_file = "missing"
    /\ command_file = NoFile
    /\ response_file \in {NoFile, Reply("Reply", 0)}
    /\ connected = FALSE
    /\ zPc = "new"
    /\ zCmd = 0
    /\ zWritten = 0
    /\ zElapsed = 0
    /\ zGot = NoFile
    /\ zRet = ZRet("none", "none", "", 0, 0)
    /\ zInitWait = 0
    /\ zSeen = {}
    /\ zTodo = <<>>

\* the game's Lua creates the status file
ZPeerCreateStatus ==
    /\ UNCHANGED notZomboid
    /\ status_file = "missing"
    /\ zPc = "new"
    /\ status_file' = "created"
    /\ UNCHANGED <<command_file, response_file, connected, zPc, zCmd, zWritten,
                   zElapsed, zGot, zRet, zInitWait, zSeen, zTodo>>

\* init up to the initial wait: the status file exists, the command file is
\* cleared and the ready signal written
ZInit ==
    /\ UNCHANGED notZomboid
    /\ zPc = "new"
    /\ status_file /= "missing"
    /\ command_file' = NoFile
    /\ \E ok \in BOOLEAN :
         IF ok
         THEN /\ status_file' = "ready"
              /\ zPc' = "init_wait"
              /\ zElapsed' = 0
              /\ UNCHANGED zRet
         ELSE /\ zRet' = ZRet("init", "IpcError",
                              "IPC error: Failed to write status file", 0, 0)
              /\ UNCHANGED <<status_file, zPc, zElapsed>>
    /\ UNCHANGED <<response_file, connected, zCmd, zWritten, zGot, zInitWait,
                   zSeen, zTodo>>

\* request: the connected check, the write of the command file, and the
\* start of wait_for_response
ZRequest ==
    /\ UNCHANGED notZomboid
    /\ zPc = "idle"
    /\ zWritten < MaxCmds
    /\ IF ~connected
       THEN /\ zRet' = ZRet("request", "IpcError", ZNotConnectedMsg, 0, 0)
            /\ UNCHANGED <<command_file, zPc, zCmd, zWritten, zElapsed>>
       ELSE \E ok \in BOOLEAN :
              IF ok
              THEN /\ command_file' = Command("request", zWritten + 1)
                   /\ zWritten' = zWritten + 1
                   /\ zCmd' = zWritten + 1
                   /\ zPc' = "polling"
                   /\ zElapsed' = 0
                   /\ UNCHANGED zRet
              ELSE /\ zRet' = ZRet("request", "IpcError",
                                   WriteCommandFailedMsg, 0, 0)
                   /\ UNCHANGED <<command_file, zPc, zCmd, zWritten, zElapsed>>
    /\ UNCHANGED <<status_file, response_file, connected, zGot, zInitWait,
                   zSeen, zTodo>>

\* a wait loop without the check of the clock
NeverTimedOut == FALSE
\* wait_for_response_impl: !initial_wait && start.elapsed() > response_timeout
TimedOut == zPc = "polling" /\ zElapsed > TimeoutPolls

\* one turn of the loop of wait_for_response_impl, up to the read of the
\* response file: a file that is empty or cannot be read means sleep
ZPoll ==
    /\ UNCHANGED notZomboid
    /\ zPc \in {"init_wait", "polling"}
    /\ zGot = NoFile
    /\ IF TimedOut
       THEN /\ zRet' = ZRet("request", "IpcError", ResponseTimeoutMsg, 0, zCmd)
            /\ zPc' = "idle"
            /\ UNCHANGED <<zGot, zElapsed>>
       ELSE IF response_file /= NoFile
       THEN /\ zGot' = response_file
            /\ UNCHANGED <<zRet, zPc, zElapsed>>
       ELSE /\ zElapsed' = IF zElapsed < MaxWait THEN zElapsed + 1 ELSE zElapsed
            /\ UNCHANGED <<zRet, zPc, zGot>>
    /\ UNCHANGED <<status_file, command_file, response_file, connected, zCmd,
                   zWritten, zInitWait, zSeen, zTodo>>

\* serde_json::from_str on the content read
ZParse(o, c) ==
    IF c.kind = "garbage"
    THEN ZRet(o, "SerializationError", "Serialization error: expected value",
              0, zCmd)
    ELSE ZRet(o, "Ok", c.kind, c.n, zCmd)

\* wait_for_response_impl after a non-empty read: clear the response file,
\* parse the content and return; init then looks for Ready
ZClear ==
    /\ UNCHANGED notZomboid
    /\ zPc \in {"init_wait", "polling"}
    /\ zGot /= NoFile
    /\ response_file' = NoFile
    /\ zGot' = NoFile
    /\ IF zPc = "polling"
       THEN /\ zRet' = ZParse("request", zGot)
            /\ zPc' = "idle"
            /\ UNCHANGED <<connected, zInitWait>>
       ELSE /\ zInitWait' = zElapsed
            /\ IF zGot.kind = "Ready"
               THEN /\ connected' = TRUE
                    /\ zRet' = ZRet("init", "Ok", "", 0, 0)
                    /\ zPc' = "idle"
               ELSE /\ zRet' = IF zGot.kind = "garbage"
                               THEN ZParse("init", zGot)
                               ELSE ZRet("init", "ProtocolError",
                                         "Protocol error: Expected Ready message",
                                         0, 0)
                    /\ zPc' = "new"
                    /\ UNCHANGED connected
    /\ UNCHANGED <<status_file, command_file, zCmd, zWritten, zElapsed, zSeen,
                   zTodo>>

\* send: the connected check and the write of the command file
ZSendWrite(k) ==
    IF ~connected
    THEN {[res |-> ZRet(k, "IpcError", ZNotConnectedMsg, 0, 0),
           file |-> command_file, written |-> zWritten]}
    ELSE {[res |-> ZRet(k, "Ok", "", 0, zWritten + 1),
           file |-> Command(k, zWritten + 1), written |-> zWritten + 1],
          [res |-> ZRet(k, "IpcError", WriteCommandFailedMsg, 0, 0),
           file |-> command_file, written |-> zWritten]}

\* deregister_agent: send(DeregisterAgent)
ZDeregister ==
    /\ UNCHANGED notZomboid
    /\ zPc = "idle"
    /\ zWritten < MaxCmds
    /\ \E o \in ZSendWrite("deregister") :
         /\ zRet' = o.res
         /\ command_file' = o.file
         /\ zWritten' = o.written
    /\ UNCHANGED <<status_file, response_file, connected, zPc, zCmd, zElapsed,
                   zGot, zInitWait, zSeen, zTodo>>

\* shutdown: send(Shutdown)?, then connected = false and the status file
\* is removed
ZShutdown ==
    /\ UNCHANGED notZomboid
    /\ zPc = "idle"
    /\ zWritten < MaxCmds
    /\ \E o \in ZSendWrite("shutdown") :
         /\ zRet' = o.res
         /\ command_file' = o.file
         /\ zWritten' = o.written
         /\ IF o.res.kind = "Ok"
            THEN connected' = FALSE /\ status_file' = "missing"
            ELSE UNCHANGED <<connected, status_file>>
    /\ UNCHANGED <<response_file, zPc, zCmd, zElapsed, zGot, zInitWait, zSeen,
                   zTodo>>

\* the game reads the command file and finds a command it has not seen
ZPeerPickUp ==
    /\ UNCHANGED notZomboid
    /\ command_file /= NoFile
    /\ command_file.n \notin zSeen
    /\ zSeen' = zSeen \cup {command_file.n}
    /\ zTodo' = IF command_file.kind = "request"
                THEN Append(zTodo, command_file)
                ELSE zTodo
    /\ UNCHANGED <<status_file, command_file, response_file, connected, zPc,
                   zCmd, zWritten, zElapsed, zGot, zRet, zInitWait>>

\* the game has seen the ready signal and writes its Ready message
ZPeerReady ==
    /\ UNCHANGED notZomboid
    /\ status_file = "ready"
    /\ ~connected
    /\ response_file = NoFile
    /\ \E k \in {"Ready", "garbage"} : response_file' = Reply(k, 0)
    /\ UNCHANGED <<status_file, command_file, connected, zPc, zCmd, zWritten,
                   zElapsed, zGot, zRet, zInitWait, zSeen, zTodo>>

\* the game writes its response to the oldest command it has picked up
ZPeerRespond ==
    /\ UNCHANGED notZomboid
    /\ zTodo /= <<>>
    /\ \E k \in {"Reply", "garbage"} :
         response_file' = Reply(k, Head(zTodo).n)
    /\ zTodo' = Tail(zTodo)
    /\ UNCHANGED <<status_file, command_file, connected, zPc, zCmd, zWritten,
                   zElapsed, zGot, zRet, zInitWait, zSeen>>

\* the steps of the task that runs the bridge's wait loop
ZBridgeStep == ZPoll \/ ZClear

ZomboidNext ==
    \/ ZPeerCreateStatus
    \/ ZInit
    \/ ZRequest
    \/ ZPoll
    \/ ZClear
    \/ ZDeregister
    \/ ZShutdown
    \/ ZPeerPickUp
    \/ ZPeerReady
    \/ ZPeerRespond

ZomboidIdle == ZomboidInit /\ response_file = NoFile

(***************************************************************************)
(* game-rl-server: the stdio transport (run), with its two writers of      *)
(* stdout, the request loop and the event forwarder task, and              *)
(* game-rl-client: GameRLClient::send_request on the other end of the      *)
(* pipes.  What is written to stdout is a sequence of pieces: the payload  *)
(* of a line, or its newline.  A failed write means the pipe is gone, and  *)
(* every later write fails too.                                            *)
(***************************************************************************)
Payload(w, n) == [part |-> "payload", by |-> w, n |-> n]
Newline(w, n) == [part |-> "newline", by |-> w, n |-> n]

WritePcs == {"payload", "newline", "flush"}

NoCRet == [kind |-> "none", re |-> 0, id |-> 0]

StdioInit ==
    /\ outLock = "none"
    /\ outBytes = <<>>
    /\ outBroken = FALSE
    /\ fwdPc = "recv"
    /\ fwdN = 0
    /\ evQueue = 0
    /\ reqPc = "read"
    /\ reqN = 0
    /\ stdin = <<>>
    /\ cPc = "idle"
    /\ request_id = 0
    /\ cRead = 0
    /\ cRet = NoCRet

\* a Mutex that excludes nobody
LockAlwaysFree == TRUE
\* stdout.lock().await returns when no task holds the Mutex
LockFree == outLock = "none"

\* one write_all or flush by task w at position pc, for line n: what it
\* appends, whether it succeeded
OutWrite(w, pc, n) ==
    IF outBroken
    THEN {[ok |-> FALSE, bytes |-> outBytes]}
    ELSE {[ok |-> TRUE,
           bytes |-> IF pc = "payload" THEN Append(outBytes, Payload(w, n))
                     ELSE IF pc = "newline" THEN Append(outBytes, Newline(w, n))
                     ELSE outBytes],
          [ok |-> FALSE, bytes |-> outBytes]}

NextWritePc(pc) ==
    IF pc = "payload" THEN "newline" ELSE IF pc = "newline" THEN "flush"
    ELSE "done"

\* the environment broadcasts a state update
EventPush ==
    /\ UNCHANGED notStdio
    /\ fwdN + evQueue < MaxNotes
    /\ evQueue' = evQueue + 1
    /\ UNCHANGED <<outLock, outBytes, outBroken, fwdPc, fwdN, reqPc, reqN,
                   stdin, cPc, request_id, cRead, cRet>>

\* event forwarder: rx.recv() returns an update, which is serialized
FwdRecv ==
    /\ UNCHANGED notStdio
    /\ fwdPc = "recv"
    /\ evQueue > 0
    /\ evQueue' = evQueue - 1
    /\ fwdN' = fwdN + 1
    /\ fwdPc' = "lock"
    /\ UNCHANGED <<outLock, outBytes, outBroken, reqPc, reqN, stdin, cPc,
                   request_id, cRead, cRet>>

\* event forwarder: stdout_for_events.lock().await
FwdLock ==
    /\ UNCHANGED notStdio
    /\ fwdPc = "lock"
    /\ LockFree
    /\ outLock' = "events"
    /\ fwdPc' = "payload"
    /\ UNCHANGED <<outBytes, outBroken, fwdN, evQueue, reqPc, reqN, stdin, cPc,
                   request_id, cRead, cRet>>

\* event forwarder: write_all(json), write_all("\n"), flush; an error
\* breaks the loop; the guard is dropped at the end of the block
FwdWrite ==
    /\ UNCHANGED notStdio
    /\ fwdPc \in WritePcs
    /\ \E o \in OutWrite("events", fwdPc, fwdN) :
         /\ outBytes' = o.bytes
         /\ outBroken' = (outBroken \/ ~o.ok)
         /\ IF ~o.ok
            THEN fwdPc' = "exited" /\ outLock' = "none"
            ELSE IF NextWritePc(fwdPc) = "done"
            THEN fwdPc' = "recv" /\ outLock' = "none"
            ELSE fwdPc' = NextWritePc(fwdPc) /\ UNCHANGED outLock
    /\ UNCHANGED <<fwdN, evQueue, reqPc, reqN, stdin, cPc, request_id, cRead,
                   cRet>>

\* request loop: read_line returns a request, handle_request answers it and
\* the response is serialized; at EOF the loop ends and run returns
SrvReadLine ==
    /\ UNCHANGED notStdio
    /\ reqPc = "read"
    /\ IF stdin /= <<>>
       THEN /\ reqN' = Head(stdin)
            /\ stdin' = Tail(stdin)
            /\ reqPc' = "lock"
       ELSE /\ cPc = "closed"
            /\ reqPc' = "exited"
            /\ UNCHANGED <<reqN, stdin>>
    /\ UNCHANGED <<outLock, outBytes, outBroken, fwdPc, fwdN, evQueue, cPc,
                   request_id, cRead, cRet>>

\* request loop: stdout.lock().await
SrvLock ==
    /\ UNCHANGED notStdio
    /\ reqPc = "lock"
    /\ LockFree
    /\ outLock' = "requests"
    /\ reqPc' = "payload"
    /\ UNCHANGED <<outBytes, outBroken, fwdPc, fwdN, evQueue, reqN, stdin, cPc,
                   request_id, cRead, cRet>>

\* request loop: write_all(response_json), write_all("\n"), flush, each
\* with `?`; the guard is dropped at the end of the block
SrvWrite ==
    /\ UNCHANGED notStdio
    /\ reqPc \in WritePcs
    /\ \E o \in OutWrite("requests", reqPc, reqN) :
         /\ outBytes' = o.bytes
         /\ outBroken' = (outBroken \/ ~o.ok)
         /\ IF ~o.ok
            THEN reqPc' = "exited" /\ outLock' = "none"
            ELSE IF NextWritePc(reqPc) = "done"
            THEN reqPc' = "read" /\ outLock' = "none"
            ELSE reqPc' = NextWritePc(reqPc) /\ UNCHANGED outLock
    /\ UNCHANGED <<fwdPc, fwdN, evQueue, reqN, stdin, cPc, request_id, cRead,
                   cRet>>

\* send_request up to the read: request_id += 1 and the request line is
\* written to the child's stdin and flushed
CSendRequest ==
    /\ UNCHANGED notStdio
    /\ cPc = "idle"
    /\ request_id < MaxRpc
    /\ request_id' = request_id + 1
    /\ IF reqPc = "exited"
       THEN /\ cRet' = [kind |-> "IpcError", re |-> 0, id |-> request_id + 1]
            /\ UNCHANGED <<stdin, cPc>>
       ELSE /\ stdin' = Append(stdin, request_id + 1)
            /\ cPc' = "reading"
            /\ UNCHANGED cRet
    /\ UNCHANGED <<outLock, outBytes, outBroken, fwdPc, fwdN, evQueue, reqPc,
                   reqN, cRead>>

\* what the client has not taken from stdout yet
Unread == SubSeq(outBytes, cRead + 1, Len(outBytes))
\* the positions in a sequence of pieces at which a line ends
LineEnds(bs) == {i \in 1..Len(bs) : bs[i].part = "newline"}
FirstLineEnd(bs) == CHOOSE i \in LineEnds(bs) : \A j \in LineEnds(bs) : i <= j

\* serde_json::from_str::<Response>(&line) and the rest of send_request:
\* the results it can have for this line
ParseResponse(line, id) ==
    IF Len(line) = 2 /\ line[1].part = "payload" /\ line[1].by = "requests"
    THEN {[kind |-> "Ok", re |-> line[1].n, id |-> id]}
    ELSE IF Len(line) = 2 /\ line[1].part = "payload" /\ line[1].by = "events"
    THEN {[kind |-> k, re |-> 0, id |-> id] :
             k \in {"SerializationError", "ProtocolError"}}
    ELSE {[kind |-> "SerializationError", re |-> 0, id |-> id]}

\* send_request: a new BufReader on the child's stdout, one read_line, and
\* the line is parsed as the Response.  The BufReader takes what the pipe
\* holds, up to its capacity, and is dropped with what it has not returned
CReadLine ==
    /\ UNCHANGED notStdio
    /\ cPc = "reading"
    /\ IF LineEnds(Unread) /= {}
       THEN LET k == FirstLineEnd(Unread)
            IN  /\ \E r \in ParseResponse(SubSeq(Unread, 1, k), request_id) :
                     cRet' = r
                /\ \E j \in 0..(Len(Unread) - k) : cRead' = cRead + k + j
       ELSE /\ reqPc = "exited"
            /\ cRet' = [kind |-> "SerializationError", re |-> 0,
                        id |-> request_id]
            /\ cRead' = Len(outBytes)
    /\ cPc' = "idle"
    /\ UNCHANGED <<outLock, outBytes, outBroken, fwdPc, fwdN, evQueue, reqPc,
                   reqN, stdin, request_id>>

\* shutdown: the child's stdin is dropped
CShutdown ==
    /\ UNCHANGED notStdio
    /\ cPc = "idle"
    /\ cPc' = "closed"
    /\ UNCHANGED <<outLock, outBytes, outBroken, fwdPc, fwdN, evQueue, reqPc,
                   reqN, stdin, request_id, cRead, cRet>>

StdioNext ==
    \/ EventPush
    \/ FwdRecv
    \/ FwdLock
    \/ FwdWrite
    \/ SrvReadLine
    \/ SrvLock
    \/ SrvWrite
    \/ CSendRequest
    \/ CReadLine
    \/ CShutdown

StdioIdle == StdioInit

\* no update was broadcast and nobody has subscribed
EventsIdle == event_tx = 0 /\ event_rx = <<>>
FramingIdle == FramingInit /\ fTransport = "tcp"
ReaderIdle == ReaderInit /\ transport = "unix" /\ EventsIdle
RegistryIdle == RegistryInit /\ max_agents = 0
HarmonyIdle == HarmonyInit
RconIdle == RconInit
PacketIdle ==
    PacketInit /\ pPkt = [id |-> 1, packet_type |-> 3, body |-> <<>>]
ObserverIdle == ObserverInit
ToolsIdle == ToolsInit
CodecIdle == CodecInit /\ gmMsg = Message("Shutdown", <<>>)
Idle1 ==
    RconIdle /\ PacketIdle /\ ObserverIdle /\ ToolsIdle /\ CodecIdle
    /\ FramingIdle
    /\ PairIdle
    /\ ZomboidIdle
    /\ StdioIdle

InitReader == ReaderInit /\ EventsIdle /\ RegistryIdle /\ HarmonyIdle /\ Idle1
InitRouting == ReaderInit /\ EventsIdle /\ RegistryIdle /\ HarmonyIdle /\ Idle1
InitRegistry == RegistryInit /\ ReaderIdle /\ HarmonyIdle /\ Idle1
InitEvents ==
    /\ ConnectedBridge
    /\ event_tx = 0
    /\ event_rx \in {<<>>, [r \in {1} |-> Receiver(0, "none", 0)]}
    /\ RegistryIdle
    /\ Idle1
InitHarmony ==
    HarmonyInit /\ NoConnection /\ EventsIdle /\ RegistryIdle /\ Idle1
Idle0 ==
    ReaderIdle /\ RegistryIdle /\ HarmonyIdle /\ ToolsIdle /\ CodecIdle
    /\ FramingIdle
    /\ PairIdle
    /\ ZomboidIdle
    /\ StdioIdle
InitRcon == RconInit /\ Idle0 /\ PacketIdle /\ ObserverIdle
InitPair ==
    /\ PairInit
    /\ PairConnected
    /\ ReaderIdle
    /\ RegistryIdle
    /\ HarmonyIdle
    /\ ToolsIdle
    /\ CodecIdle
    /\ FramingIdle
    /\ PacketIdle
    /\ ObserverIdle
    /\ ZomboidIdle
    /\ StdioIdle
InitZomboid ==
    /\ ZomboidInit
    /\ ReaderIdle
    /\ RegistryIdle
    /\ HarmonyIdle
    /\ ToolsIdle
    /\ CodecIdle
    /\ FramingIdle
    /\ RconIdle
    /\ PacketIdle
    /\ ObserverIdle
    /\ PairIdle
    /\ StdioIdle
InitStdio ==
    /\ StdioInit
    /\ ReaderIdle
    /\ RegistryIdle
    /\ HarmonyIdle
    /\ ToolsIdle
    /\ CodecIdle
    /\ FramingIdle
    /\ RconIdle
    /\ PacketIdle
    /\ ObserverIdle
    /\ PairIdle
    /\ ZomboidIdle
InitPacket == PacketInit /\ Idle0 /\ RconIdle /\ ObserverIdle
InitObserver == ObserverInit /\ Idle0 /\ RconIdle /\ PacketIdle
InitReset == ObserverInit /\ Idle0 /\ PacketIdle /\ RconIdle
InitStep == ObserverInit /\ Idle0 /\ PacketIdle /\ RconIdle
InitTools ==
    /\ ToolsInit
    /\ RegistryInit
    /\ ReaderIdle
    /\ HarmonyIdle
    /\ RconIdle
    /\ PacketIdle
    /\ ObserverIdle
    /\ CodecIdle
    /\ FramingIdle
    /\ PairIdle
    /\ ZomboidIdle
    /\ StdioIdle
InitCodec ==
    /\ CodecInit
    /\ ReaderIdle
    /\ RegistryIdle
    /\ HarmonyIdle
    /\ ToolsIdle
    /\ RconIdle
    /\ PacketIdle
    /\ ObserverIdle
    /\ FramingIdle
    /\ PairIdle
    /\ ZomboidIdle
    /\ StdioIdle
InitFraming ==
    /\ FramingInit
    /\ ReaderIdle
    /\ RegistryIdle
    /\ HarmonyIdle
    /\ ToolsIdle
    /\ CodecIdle
    /\ RconIdle
    /\ PacketIdle
    /\ ObserverIdle
    /\ PairIdle
    /\ ZomboidIdle
    /\ StdioIdle

SpecReader == InitReader /\ [][ReaderNext]_vars

SpecRouting == InitRouting /\ [][RoutingNext]_vars

SpecEvents == InitEvents /\ [][EventsNext]_vars

SpecFraming == InitFraming /\ [][FramingNext]_vars

SpecRegistry == InitRegistry /\ [][RegistryNext]_vars

SpecHarmony == InitHarmony /\ [][HarmonyNext]_vars

SpecRcon == InitRcon /\ [][RconNext]_vars

SpecPair == InitPair /\ [][PairNext]_vars

SpecZomboid == InitZomboid /\ [][ZomboidNext]_vars

\* the bridge's call is a running task and its sleeps end: the wait loop
\* takes its next turn
FairSpecZomboid == SpecZomboid /\ WF_vars(ZBridgeStep)

SpecStdio == InitStdio /\ [][StdioNext]_vars

SpecPacket == InitPacket /\ [][PacketNext]_vars

SpecObserver == InitObserver /\ [][ObserverNext]_vars

SpecReset == InitReset /\ [][ResetNext]_vars

SpecStep == InitStep /\ [][StepNext]_vars

SpecTools == InitTools /\ [][ToolsNext]_vars

SpecCodec == InitCodec /\ [][CodecNext]_vars

\* the reader is a spawned task: it runs whenever one of its branches is ready
FairSpecReader == SpecReader /\ WF_vars(ReaderStep)

(***************************************************************************)
(* C1: a decoded message that is no StateUpdate is always delivered to the *)
(* oldest pending slot (position 1 of the queue), so that slots registered *)
(* in order 1..N receive the replies in order 1..N, whatever ids the       *)
(* replies carry.                                                          *)
(***************************************************************************)
Delivered(s) == outcome[s] /= <<>> /\ outcome[s][1].kind = "Ok"

C1_FifoCorrelation ==
    \A s \in Slots : Delivered(s) => outcome[s][1].pos = 1

(***************************************************************************)
(* C4: every reply slot that was created is resolved at most once; once    *)
(* the reader task has exited every created slot is resolved (the slots in *)
(* its pending queue, the slots still queued in the request channel, and   *)
(* the slots of later requests); and once the read side has failed the     *)
(* reader task does exit, so no caller waits forever.                      *)
(***************************************************************************)
ReadSideFailed == eof /\ wire = <<>>

C4_Safety ==
    /\ \A s \in Slots : Len(outcome[s]) <= 1
    /\ \A s \in Slots : s > created => outcome[s] = <<>>
    /\ reader = "exited" => \A s \in 1..created : Len(outcome[s]) = 1

C4_ResolvedExactlyOnce ==
    /\ []C4_Safety
    /\ ReadSideFailed ~> (reader = "exited")

\* slots of all three kinds were resolved by the reader's exit on a read failure
C4_Witness ==
    /\ reader = "exited"
    /\ created = MaxReq
    /\ \E s, t, u \in Slots :
         /\ outcome[s] = <<ErrOut("Connection lost")>>
         /\ outcome[t] = <<ErrOut("RecvError")>>
         /\ outcome[u] = <<ErrOut("SendError")>>

(***************************************************************************)
(* C2: register with an id that is already present returns success and     *)
(* changes nothing (no entry added, type, status and counters of the id    *)
(* kept), in every registry state, the full registry included.             *)
(***************************************************************************)
C2_ReRegisterIdempotent ==
    [][\A id \in AgentIds :
          (regLast'.op = "register" /\ regLast'.id = id /\ id \in DOMAIN agents)
              => (regLast'.res = "Ok" /\ agents' = agents)]_vars

(***************************************************************************)
(* C3: the registry never holds more than max_agents entries, so that      *)
(* available_slots does not underflow; register of an id that is not       *)
(* present fails with CapacityExceeded and changes nothing when the        *)
(* registry holds exactly max_agents entries, and otherwise inserts the id *)
(* with status Registered and zero counters, leaving the other entries.    *)
(***************************************************************************)
C3_WithinCapacity ==
    /\ Len_agents(agents) <= max_agents
    /\ available_slots >= 0

C3_RegisterNew ==
    \A id \in AgentIds :
        (regLast'.op = "register" /\ regLast'.id = id /\ id \notin DOMAIN agents)
            => IF Len_agents(agents) = max_agents
               THEN regLast'.res = "CapacityExceeded" /\ agents' = agents
               ELSE /\ regLast'.res = "Ok"
                    /\ DOMAIN agents' = DOMAIN agents \cup {id}
                    /\ agents'[id].status = "Registered"
                    /\ agents'[id].last_step = 0
                    /\ agents'[id].total_reward = 0
                    /\ \A k \in DOMAIN agents : agents'[k] = agents[k]

C3_CapacityCeiling == []C3_WithinCapacity /\ [][C3_RegisterNew]_vars

\* a full registry of MaxCapacity entries has just rejected a new id
C3_Witness ==
    /\ max_agents = MaxCapacity
    /\ Len_agents(agents) = max_agents
    /\ regLast.op = "register"
    /\ regLast.id \notin DOMAIN agents
    /\ regLast.res = "CapacityExceeded"
    /\ \E k \in DOMAIN agents : agents[k].last_step > 0

(***************************************************************************)
(* C5: a request or send that fails with a connection-loss error (a write  *)
(* failure, or the reader's 'Connection lost') has been retried once after *)
(* a reconnect before the caller sees the error: the operation wrote its   *)
(* frame a second time.                                                    *)
(***************************************************************************)
ConnectionLoss == {"Write failed", "Connection lost"}

C5_ReconnectAndRetry ==
    (callResult.kind = "Err" /\ callResult.msg \in ConnectionLoss)
        => callWrites >= 2

(***************************************************************************)
(* C6: reconnection terminates: the bridge stops retrying once the failed  *)
(* attempts exceed the retry ceiling, so their number stays within it.     *)
(***************************************************************************)
C6_ReconnectTerminates == failures <= RetryCeiling

(***************************************************************************)
(* C7: the delay between connect attempts starts at the initial delay,     *)
(* doubles with each failed attempt and never exceeds the maximum delay.   *)
(***************************************************************************)
C7_BackoffCapped ==
    /\ delay <= max_delay
    /\ delay = Min(initial_delay * 2 ^ failures, max_delay)

\* the delay has reached the ceiling and another attempt has failed
C7_Witness ==
    /\ failures = MaxFailures
    /\ delay = max_delay
    /\ mainPc = "sleep"

(***************************************************************************)
(* C8: connect succeeds, and stores the capabilities, only when the first  *)
(* message of the peer is Ready; a connect that received any other message *)
(* fails with ProtocolError and stores no capabilities.                    *)
(***************************************************************************)
Connected == mainPc \in {"serving", "submit", "await_reply"}

C8_HandshakeReadyFirst ==
    /\ Connected => first = "Ready"
    /\ capabilities = "Some" => first = "Ready"
    /\ (/\ mainPc = "sleep"
        /\ waitSlot /= 0
        /\ outcome[waitSlot] /= <<>>
        /\ outcome[waitSlot][1].kind = "Ok")
           => (connectResult = "ProtocolError" /\ capabilities = "None")

(***************************************************************************)
(* C9: a reader that has read a length prefix above 64 MiB has failed: the *)
(* reader task has exited and no reply slot is left pending.               *)
(***************************************************************************)
C9_OversizedFrameFatal ==
    oversized => (reader = "exited" /\ pending = <<>>)

(***************************************************************************)
(* C10: when the reply to the Auth packet has id -1, connect fails with an *)
(* error of kind AuthenticationFailed, which is neither the IPC kind nor   *)
(* ProtocolError; the client is left not authenticated and connect has     *)
(* sent the Auth packet once only.                                         *)
(***************************************************************************)
C10_AuthFailureKind ==
    (/\ rPc = "idle"
     /\ rResult.op = "connect"
     /\ rAuthReply = <<AUTH_REJECTED>>)
        => /\ rResult.res.kind = "AuthenticationFailed"
           /\ rResult.res.kind \notin {"IpcError", "ProtocolError"}
           /\ ~authenticated
           /\ rAuthSends = 1

(***************************************************************************)
(* C11: within one call to execute the command packet is sent at most      *)
(* twice and a reconnect is attempted at most once; the reconnect happens  *)
(* only after a first failure that is connection-related (broken pipe,     *)
(* EOF, not connected, not authenticated); any other first failure is      *)
(* returned as it is with nothing further sent, and a failed reconnect     *)
(* (refused, or rejected password) is returned without a second send.      *)
(***************************************************************************)
ConnectionErrorTexts ==
    {"IPC error: RCON send failed: Broken pipe",
     "IPC error: RCON recv size failed: early eof",
     "IPC error: RCON not connected",
     "IPC error: RCON not authenticated"}

ReconnectFailedTexts ==
    {"IPC error: RCON connect failed: Connection refused",
     "IPC error: RCON authentication failed"}

C11_RetryOnce ==
    rTop = "execute" =>
      /\ rCmdSends <= 2
      /\ rConnects <= 1
      /\ rConnects = 1 => (rErr /= <<>> /\ rErr[1].msg \in ConnectionErrorTexts)
      /\ (rErr /= <<>> /\ rErr[1].msg \notin ConnectionErrorTexts)
            => /\ rPc = "idle"
               /\ rResult = [op |-> "execute", res |-> rErr[1]]
               /\ rConnects = 0
               /\ rCmdSends <= 1
      /\ (rPc = "idle" /\ rConnects = 1
            /\ rResult.res.msg \in ReconnectFailedTexts)
            => rCmdSends = IF rErr[1].msg = "IPC error: RCON not authenticated"
                           THEN 0 ELSE 1

\* the second attempt was made after a reconnect and its failure returned
C11_Witness ==
    /\ rTop = "execute"
    /\ rPc = "idle"
    /\ rCmdSends = 2
    /\ rConnects = 1
    /\ rResult.op = "execute"
    /\ rResult.res.kind = "IpcError"

(***************************************************************************)
(* C12: to_bytes yields a little-endian size prefix equal to 8 + L + 2     *)
(* followed by exactly that many bytes (id, type, body, two zero bytes),   *)
(* and from_bytes of the bytes after the prefix recovers the same id,      *)
(* type and body.                                                          *)
(***************************************************************************)
C12_Layout ==
    LET L == Len(pPkt.body)
    IN  /\ Len(pBuf) = 4 + 8 + L + 2
        /\ from_le_bytes(SubSeq(pBuf, 1, 4)) = 8 + L + 2
        /\ SubSeq(pBuf, 5, 8) = to_le_bytes(pPkt.id)
        /\ SubSeq(pBuf, 9, 12) = to_le_bytes(pPkt.packet_type)
        /\ SubSeq(pBuf, 13, 12 + L) = pPkt.body
        /\ SubSeq(pBuf, 13 + L, 14 + L) = <<0, 0>>

C12_PacketRoundTrip ==
    /\ pPhase \in {"encoded", "decoded"} => C12_Layout
    /\ pPhase = "decoded" =>
          /\ pParsed.kind = "Ok"
          /\ pParsed.id = pPkt.id
          /\ pParsed.packet_type = pPkt.packet_type
          /\ pParsed.body = pPkt.body

(***************************************************************************)
(* C13: read_current emits an observation exactly when its tick is         *)
(* strictly greater than last_tick (initially 0) and then sets last_tick   *)
(* to it; an equal or smaller tick, an empty file and a missing file give  *)
(* 'nothing new', not an error, and leave last_tick unchanged; emitted     *)
(* ticks are strictly increasing and ticks 5, 5, 7, 6, 9 emit 5, 7, 9.     *)
(***************************************************************************)
RECURSIVE RecordTicks(_, _)
RecordTicks(ticks, highest) ==
    IF ticks = <<>> THEN <<>>
    ELSE IF Head(ticks) > highest
         THEN <<Head(ticks)>> \o RecordTicks(Tail(ticks), Head(ticks))
         ELSE RecordTicks(Tail(ticks), highest)

C13_TickMonotonic ==
    /\ oEmitted = RecordTicks(oSeen, 0)
    /\ last_tick = IF oEmitted = <<>> THEN 0 ELSE oEmitted[Len(oEmitted)]
    /\ \A i, j \in DOMAIN oEmitted : i < j => oEmitted[i] < oEmitted[j]
    /\ oSeen = <<5, 5, 7, 6, 9>> => oEmitted = <<5, 7, 9>>
    /\ oLast.content.kind \in {"empty", "missing"}
          => (oLast.res = "None" /\ last_tick = oLast.before)
    /\ (oLast.content.kind = "observation"
            /\ oLast.content.tick <= oLast.before)
          => (oLast.res = "None" /\ last_tick = oLast.before)
    /\ (oLast.content.kind = "observation"
            /\ oLast.content.tick > oLast.before)
          => (oLast.res = "Some" /\ last_tick = oLast.content.tick)

\* the ticks of the example were read in that order, the last from an
\* emptied file
C13_Witness ==
    /\ oSeen = <<5, 5, 7, 6, 9>>
    /\ oEmitted = <<5, 7, 9>>
    /\ oLast.content.kind = "empty"
    /\ last_tick = 9

(***************************************************************************)
(* C19: reset returns the initial observation of the new episode: when the *)
(* only change of the observation file since reset cleared it is the first *)
(* observation the game wrote for the reset command, a reset whose command *)
(* succeeded has returned that observation, whatever its tick.             *)
(***************************************************************************)
C19_ResetReturnsInitial ==
    (rsPc = "done" /\ rsResult.at = "wait" /\ rsWrites = 1 /\ rsFirst /= <<>>)
        => (rsResult.kind = "Ok" /\ rsResult.tick = rsFirst[1])

(***************************************************************************)
(* The dispatch server.                                                    *)
(***************************************************************************)
\* C14: a register_agent tool call the registry rejects for capacity never
\* invokes the environment's register_agent (nothing goes to the remote
\* peer), and the caller receives the capacity error.
C14_CapacityBeforeEnvironment ==
    (response.tool = "register_agent" /\ response.reg = "CapacityExceeded")
        => /\ response.env = <<>>
           /\ response.kind = "error"
           /\ response.err = "ResourceExhausted"
           /\ response.code = -32004

\* a full registry of two agents has turned a third register_agent down
C14_Witness ==
    /\ response.tool = "register_agent"
    /\ response.reg = "CapacityExceeded"
    /\ response.env = <<>>
    /\ response.code = -32004
    /\ max_agents > 0
    /\ Len_agents(agents) = max_agents

\* C15: a sim_step or deregister_agent tool call naming an agent id that is
\* not in the registry fails with an agent-not-registered error without
\* invoking the environment.
C15_AbsentAgentFailsLocally ==
    (/\ response.tool \in {"sim_step", "deregister_agent"}
     /\ response.err /= "SerializationError"
     /\ ~response.known)
        => /\ response.env = <<>>
           /\ response.kind = "error"
           /\ response.err = "AgentNotRegistered"

\* C17: reading game://agents returns the agents now registered and
\* available_slots = max_agents minus the number of entries.
C17_AgentsResource ==
    (/\ response.method = "resources/read"
     /\ response.id = "game://agents"
     /\ response.kind = "success")
        => /\ response.agents = DOMAIN agents
           /\ response.available_slots = max_agents - Len_agents(agents)

\* C18: a register_agent call whose AgentType is one of the values of the
\* input schema's enum passes parameter deserialization and reaches the
\* registry.
C18_SchemaTypesAccepted ==
    (response.tool = "register_agent"
     /\ response.agent_type \in SchemaAgentTypes)
        => (response.err /= "SerializationError" /\ response.reg /= "none")

\* C20: the code of an error response is fixed by the kind of the failure:
\* capacity -32004; AgentNotRegistered, InvalidAction, EpisodeTerminated,
\* SyncTimeout -32000 .. -32003; any other failure of a tool call -32603; a
\* method the server does not have -32601; malformed parameters of a method
\* -32602.
C20_ErrorCodes ==
    response.kind = "error" =>
        /\ (response.tool = "register_agent"
            /\ response.reg = "CapacityExceeded") => response.code = -32004
        /\ response.err = "AgentNotRegistered" => response.code = -32000
        /\ response.err = "InvalidAction" => response.code = -32001
        /\ response.err = "EpisodeTerminated" => response.code = -32002
        /\ response.err = "SyncTimeout" => response.code = -32003
        /\ response.err \in {"IpcError", "ProtocolError",
                             "SerializationError", "GameError"}
               => response.code = -32603
        /\ response.method \notin Methods => response.code = -32601
        /\ (response.method \in Methods /\ response.err = "none")
               => response.code = -32602

\* the environment's step missed its deadline
C20_Witness ==
    /\ response.tool = "sim_step"
    /\ response.kind = "error"
    /\ response.err = "SyncTimeout"
    /\ response.code = -32003

\* C16: for every GameMessage, deserialize(serialize(m)) succeeds and yields a
\* message of the same variant whose fields equal those of m, also for
\* ExecuteAction with a Parameterized action and its open map of parameters
\* and for messages with each variant of Observation.
C16_MessageRoundTrip ==
    gmPhase = "deserialized" => (~Failed(gmDecoded) /\ gmDecoded = gmMsg)

\* C21: after shutdown returns, the socket bridge's writer is cleared, also
\* when sending the Shutdown notification failed or the bridge was not
\* connected
C21_ShutdownTearsDown ==
    (callOp = "shutdown" /\ callResult /= NoResult) => writer = "None"

\* C22: no request is on the wire while its reply slot is not yet handed to
\* the reader task: every request frame in flight to the peer belongs to a
\* slot that has been created and sent on the request channel
C22_SlotBeforeWrite ==
    \A i \in 1..Len(toPeer) :
        toPeer[i].op = "request" => toPeer[i].n <= created

\* the reader task takes from the stream the reply the peer wrote to a request
ReadsReplyToRequest ==
    /\ reader = "running"
    /\ ~desync
    /\ wire /= <<>>
    /\ wire' = Tail(wire)
    /\ Head(wire).kind = "Reply"
    /\ Head(wire).id \in Slots

\* C23: a reply the peer sends to a request is delivered to that request's
\* slot and never discarded for want of a pending slot, in every
\* interleaving of the requesting task, the reader task and the peer
C23_ReplyReachesSlot ==
    [][ReadsReplyToRequest =>
          LET n == Head(wire).id
          IN  /\ Len(outcome'[n]) = Len(outcome[n]) + 1
              /\ outcome'[n][Len(outcome'[n])].kind = "Ok"]_vars

InSeq(q, s) == \E i \in 1..Len(q) : q[i] = s

\* the reader task leaves its loop though the request channel is not closed
\* and drained: read_message returned Err
ReadFailure ==
    /\ reader /= "exited"
    /\ reader' = "exited"
    /\ tx_alive \/ request_rx /= <<>>

\* C24: on a read failure the reader task sends "Connection lost" to every
\* slot pending at that moment and to no other, leaves the pending queue
\* empty and exits; afterwards it reads no message and delivers nothing
C24_ReadFailureDrains ==
    /\ [][ReadFailure =>
            /\ pending' = <<>>
            /\ \A s \in Slots :
                 /\ InSeq(pending, s) =>
                        outcome'[s] = Append(outcome[s], ErrOut("Connection lost"))
                 /\ ~InSeq(pending, s) /\ ~InSeq(request_rx, s) =>
                        outcome'[s] = outcome[s]]_vars
    /\ [][reader = "exited" =>
            /\ reader' = "exited"
            /\ pending' = <<>>
            /\ Len(wire') >= Len(wire)
            /\ \A s \in Slots :
                 outcome'[s] /= outcome[s] =>
                     outcome'[s] = Append(outcome[s], ErrOut("SendError"))]_vars

\* two slots were pending when the read failed, and both were told
C24_Witness ==
    /\ reader = "exited"
    /\ outcome[1] = <<ErrOut("Connection lost")>>
    /\ outcome[2] = <<ErrOut("Connection lost")>>
    /\ wire /= <<>>

\* the reader task takes a frame that read_message returns and deserialize
\* rejects
DecodeFails ==
    /\ reader = "running"
    /\ ~desync
    /\ wire /= <<>>
    /\ wire' = Tail(wire)
    /\ ReadMessage(transport, Head(wire)) = "Ok"
    /\ deserialize(Head(wire)) = "Err"

\* C25: a frame that fails to decode gives a SerializationError to the
\* oldest pending slot and to that slot only (to none when the queue is
\* empty), and the reader task stays in its loop
C25_DecodeErrorToOldest ==
    [][DecodeFails =>
         /\ reader' = "running"
         /\ IF pending = <<>>
            THEN outcome' = outcome /\ pending' = pending
            ELSE /\ outcome' = Resolve(outcome, Head(pending),
                                       ErrOut("SerializationError"))
                 /\ pending' = Tail(pending)]_vars

\* the reader task takes a frame that read_message returns and deserialize
\* accepts
ReadsMessage ==
    /\ reader = "running"
    /\ ~desync
    /\ wire /= <<>>
    /\ wire' = Tail(wire)
    /\ ReadMessage(transport, Head(wire)) = "Ok"
    /\ deserialize(Head(wire)) /= "Err"

\* C26: a StateUpdate is broadcast to the current subscribers and neither
\* completes nor removes a pending slot; every other decoded message
\* completes exactly one pending slot, or is discarded when none is
\* pending, and is never broadcast
C26_RoutingDisjoint ==
    [][ReadsMessage =>
         IF deserialize(Head(wire)) = "StateUpdate"
         THEN /\ pending' = pending
              /\ outcome' = outcome
              /\ IF DOMAIN event_rx = {}
                 THEN event_tx' = event_tx
                 ELSE /\ event_tx' = event_tx + 1
                      /\ \A r \in DOMAIN event_rx : event_rx[r].next <= event_tx
         ELSE /\ event_tx' = event_tx
              /\ IF pending = <<>>
                 THEN outcome' = outcome /\ pending' = pending
                 ELSE \E i \in 1..Len(pending) :
                        /\ outcome' = Resolve(outcome, pending[i],
                                              OkMsg(Head(wire).kind,
                                                    Head(wire).id, i))
                        /\ pending' = SubSeq(pending, 1, i - 1)
                                          \o SubSeq(pending, i + 1, Len(pending))
       ]_vars

\* a subscriber has received an update, one slot got a reply and another
\* slot is still pending
C26_Witness ==
    /\ \E r \in DOMAIN event_rx : event_rx[r].last = "Ok"
    /\ pending /= <<>>
    /\ \E s \in Slots : Delivered(s) /\ outcome[s][1].msg = "Reply"

\* the reader task is at a StateUpdate
AtStateUpdate ==
    /\ reader = "running"
    /\ ~desync
    /\ wire /= <<>>
    /\ Head(wire).kind = "StateUpdate"

\* C27: broadcasting a StateUpdate never blocks the reader task, with no
\* subscriber and with a subscriber that has read nothing while more than
\* 64 updates arrived; a reply that follows is delivered to a pending slot;
\* a recv of the lagging subscriber skips updates and changes nothing else
C27_BroadcastNeverBlocks ==
    /\ [](AtStateUpdate => ENABLED ReaderReadMessage)
    /\ [][(ReadsMessage /\ Head(wire).kind = "Reply" /\ pending /= <<>>) =>
            \E i \in 1..Len(pending) :
               /\ Len(pending') = Len(pending) - 1
               /\ outcome'[pending[i]] =
                      Append(outcome[pending[i]],
                             OkMsg("Reply", Head(wire).id, i))]_vars
    /\ [][\A r \in DOMAIN event_rx :
             event_rx'[r] /= event_rx[r] =>
                /\ UNCHANGED <<readerVars, event_tx>>
                /\ event_rx'[r].next <= event_tx
                /\ event_rx'[r].next - event_rx[r].next =
                      (event_rx'[r].missed - event_rx[r].missed)
                      + (IF event_rx'[r].last = "Ok" THEN 1 ELSE 0)]_vars

\* more than 64 updates were broadcast to a subscriber that has read none,
\* and the reply to the pending request is the next frame on the stream
C27_Witness ==
    /\ event_tx > BROADCAST_CAPACITY
    /\ \E r \in DOMAIN event_rx : event_rx[r] = Receiver(0, "none", 0)
    /\ reader = "running"
    /\ pending = <<2>>
    /\ wire = <<Frame(SmallLen, "Reply", 2)>>

\* the bridge task makes a step of send (deregister_agent) or shutdown
SendStep ==
    /\ callOp' \in {"send", "shutdown"}
    /\ \/ <<callOp, callWrites, callResult, writer>>'
            /= <<callOp, callWrites, callResult, writer>>
       \/ Len(toPeer') > Len(toPeer)

\* C28: send writes one frame and returns at once: it creates no reply slot,
\* awaits nothing from the peer, and the reader's pending queue is the same
\* before and after
C28_SendLeavesPending ==
    [][SendStep =>
         /\ created' = created
         /\ request_rx' = request_rx
         /\ pending' = pending
         /\ outcome' = outcome
         /\ wire' = wire
         /\ mainPc' = "serving"
         /\ callResult' /= NoResult
         /\ callWrites' = (IF writer = "Some" THEN 1 ELSE 0)
         /\ Len(toPeer') <= Len(toPeer) + 1
         /\ (callResult' = OkUnit /\ ~eof) =>
                /\ Len(toPeer') = Len(toPeer) + 1
                /\ toPeer'[Len(toPeer')].op = callOp']_vars

\* a send has returned Ok with its frame in flight and no slot beyond the
\* handshake's was ever created
C28_Witness ==
    /\ callOp = "send"
    /\ callResult = OkUnit
    /\ callWrites = 1
    /\ toPeer /= <<>>
    /\ toPeer[Len(toPeer)].op = "send"
    /\ created = 1
    /\ pending = <<>>

\* the frame of a payload: its length as 4 little-endian bytes, then the
\* payload
Framed(data) == Runs(to_le_bytes(ByteLen(data))) \o data

RECURSIVE FramedAll(_)
FramedAll(ps) ==
    IF ps = <<>> THEN <<>> ELSE Framed(Head(ps)) \o FramedAll(Tail(ps))

\* every payload written so far has 0 to 64 MiB bytes
PayloadsInRange ==
    \A i \in 1..Len(fWritten) : ByteLen(fWritten[i]) <= MAX_MESSAGE_SIZE

\* C29: payloads of 0 to 64 MiB bytes written with write_message come out
\* of read_message in the same order with the same bytes and boundaries,
\* each frame being a 4-byte little-endian length and that many bytes, and
\* the TCP and Unix wrappers do the same on every stream
C29_FramingRoundTrip ==
    /\ PayloadsInRange =>
          /\ ~fFailed
          /\ Len(fRead) <= Len(fWritten)
          /\ fRead = SubSeq(fWritten, 1, Len(fRead))
          /\ fStream = Canon(FramedAll(SubSeq(fWritten, Len(fRead) + 1,
                                              Len(fWritten))))
          /\ Len(fRead) < Len(fWritten) =>
                read_message(fTransport, fStream).res = "Ok"
    /\ tcp_read_message(fStream) = unix_read_message(fStream)
    /\ \A data \in FramePayloads :
          tcp_write_message(fStream, data) = unix_write_message(fStream, data)

\* an empty payload and a payload of exactly 64 MiB have made the round trip
C29_Witness ==
    /\ PayloadsInRange
    /\ fRead = fWritten
    /\ \E i \in 1..Len(fRead) : fRead[i] = <<>>
    /\ \E i \in 1..Len(fRead) : ByteLen(fRead[i]) = MAX_MESSAGE_SIZE

\* C30: a sim_step that succeeds for a registered agent adds exactly 1 to
\* that agent's step counter and changes no other entry; a sim_step that
\* fails changes no entry; record_step for an id that is not in the
\* registry changes no entry and the step still succeeds
C30_StepCountsOnce ==
    [][response'.tool = "sim_step" =>
         /\ DOMAIN agents' = DOMAIN agents
         /\ IF response'.kind = "success"
            THEN /\ response'.reg = "Ok"
                 /\ \A k \in DOMAIN agents :
                      IF k = response'.id
                      THEN /\ agents'[k].last_step = agents[k].last_step + 1
                           /\ agents'[k].agent_type = agents[k].agent_type
                           /\ agents'[k].status = agents[k].status
                      ELSE agents'[k] = agents[k]
            ELSE /\ response'.reg = "none"
                 /\ agents' = agents]_vars

\* a step was counted for one of two registered agents, and the other
\* agent's counter is still 0
C30_Witness ==
    /\ response.tool = "sim_step"
    /\ response.kind = "success"
    /\ response.known
    /\ agents[response.id].last_step = 1
    /\ \E k \in DOMAIN agents : k /= response.id /\ agents[k].last_step = 0

\* the reader task takes the first message of the connection, a Ready,
\* while connect is under way
ReadsFirstReady ==
    /\ mainPc \in {"handshake", "await_ready"}
    /\ reader = "running"
    /\ ~desync
    /\ wire /= <<>>
    /\ wire' = Tail(wire)
    /\ Len(wire) = sent
    /\ Head(wire).kind = "Ready"

\* C32: when the peer's first message is Ready it reaches connect's
\* handshake slot in every interleaving of the reader task with the
\* connecting task, also when the reader reads it before the slot has
\* reached it
C32_ReadyReachesConnect ==
    [][ReadsFirstReady =>
         \E s \in Slots :
            /\ Len(outcome'[s]) = Len(outcome[s]) + 1
            /\ outcome'[s][Len(outcome'[s])].kind = "Ok"
            /\ outcome'[s][Len(outcome'[s])].msg = "Ready"]_vars

\* C40: with every bridge operation made by the one bridge task (the
\* dispatch server holds the environment write lock around each operation,
\* and request awaits its reply), at most one reply slot is queued for or
\* pending in the reader task at any time
C40_OnePendingSlot == Len(pending) + Len(request_rx) <= 1

\* the second request of the connection waits for its reply: its slot is
\* the only one pending, the first request's slot has its reply
C40_Witness ==
    /\ mainPc = "await_reply"
    /\ pending = <<3>>
    /\ Delivered(2)
    /\ outcome[2][1].msg = "Reply"

\* C37: a register_agent call that fails (its environment round trip
\* included) leaves no registry entry and takes no capacity, and a
\* deregister_agent call that fails leaves the entry in place: a failed
\* call of either tool leaves the registry as it was
C37_RegistryFollowsEnvironment ==
    [][(/\ response'.tool \in {"register_agent", "deregister_agent"}
        /\ response'.kind = "error")
          => agents' = agents]_vars

(***************************************************************************)
(* C36: with two execute calls running concurrently on one RconClient, a   *)
(* call that returns Ok returns the body of the reply to its own command:  *)
(* the reply answers the packet whose id the call took and sent.           *)
(***************************************************************************)
C36_OwnReply ==
    \A c \in Callers :
        xRet[c].kind = "Ok" => xRet[c].body = xRet[c].sent /\ xRet[c].id = xRet[c].sent

(***************************************************************************)
(* C31: a normal request of the file-poll bridge does not poll forever: it *)
(* never polls on after response_timeout has elapsed, the turn of the loop *)
(* that finds the timeout passed with nothing read returns the IPC error   *)
(* "Response timeout", and every normal wait comes to an end.  The initial *)
(* wait of init never returns that error and, as long as the response file *)
(* is empty, goes on polling.                                              *)
(***************************************************************************)
C31_BoundedAndUnboundedWait ==
    /\ [](zPc = "polling" => zElapsed <= TimeoutPolls + 1)
    /\ [][(zPc = "polling" /\ zElapsed > TimeoutPolls /\ zGot = NoFile
           /\ zPc' /= "polling")
          => zRet' = ZRet("request", "IpcError", ResponseTimeoutMsg, 0, zCmd)]_vars
    /\ [][zPc = "init_wait" => zRet'.msg /= ResponseTimeoutMsg]_vars
    /\ [][(zPc = "init_wait" /\ zGot = NoFile /\ response_file = NoFile)
          => zPc' = "init_wait"]_vars
    /\ (zPc = "polling") ~> (zPc = "idle")

\* a request has timed out on a bridge whose initial wait had gone on for
\* longer than response_timeout
C31_Witness ==
    /\ zRet.msg = ResponseTimeoutMsg
    /\ zInitWait > TimeoutPolls + 1
    /\ connected

(***************************************************************************)
(* C33: the message request() returns was written by the game in reply to  *)
(* the command that request() wrote.                                       *)
(***************************************************************************)
C33_ReplyToThisRequest ==
    (zRet.op = "request" /\ zRet.kind = "Ok") => zRet.re = zRet.cmd

(***************************************************************************)
(* C34: the bridge writes a new command to the command file only when the  *)
(* file is empty or the game has picked up the command it holds.           *)
(***************************************************************************)
C34_NoCommandOverwritten ==
    [][(command_file' /= command_file /\ command_file' /= NoFile)
       => (command_file = NoFile \/ command_file.n \in zSeen)]_vars

(***************************************************************************)
(* C35: the observation step returns was written by the game after the     *)
(* step's command was issued: when wait_for_observation returns Ok, the    *)
(* observation file has been written since the command.                    *)
(***************************************************************************)
C35_ObservationAfterCommand ==
    [][(rsPc = "waiting" /\ rsPc' = "done" /\ rsResult'.kind = "Ok")
       => rsWrites > 0]_vars

(***************************************************************************)
(* C38: lines on the server's stdout are never interleaved.  A task is in  *)
(* its write section (payload, newline, flush) only while it holds the     *)
(* stdout lock, and what has been written is a sequence of whole lines,    *)
(* each the payload of one task followed by that task's newline; only the  *)
(* last line may lack its newline, while its writer is about to write it   *)
(* or after the pipe has failed.                                           *)
(***************************************************************************)
C38_LinesNotInterleaved ==
    /\ fwdPc \in WritePcs => outLock = "events"
    /\ reqPc \in WritePcs => outLock = "requests"
    /\ \A i \in 1..Len(outBytes) :
         IF outBytes[i].part = "payload"
         THEN IF i < Len(outBytes)
              THEN outBytes[i + 1] = Newline(outBytes[i].by, outBytes[i].n)
              ELSE \/ outBroken
                   \/ outBytes[i].by = "events" /\ fwdPc = "newline"
                   \/ outBytes[i].by = "requests" /\ reqPc = "newline"
         ELSE i > 1 /\ outBytes[i - 1] = Payload(outBytes[i].by, outBytes[i].n)

\* the forwarder waits for the lock while the request loop is in the middle
\* of a line, after a notification line has been written whole
C38_Witness ==
    /\ fwdPc = "lock"
    /\ reqPc = "newline"
    /\ Len(outBytes) = 3
    /\ outBytes[1].by = "events"

(***************************************************************************)
(* C39: send_request returns the server's response to the request it sent: *)
(* a result it returns as Ok comes from the response line whose id is its  *)
(* request_id.                                                             *)
(***************************************************************************)
C39_ResponseToThisRequest ==
    cRet.kind = "Ok" => cRet.re = cRet.id

====
